---- MODULE Spec2Model ----
(***************************************************************************)
(* A model of the content annotation pipeline of xuexinwen (backend/):     *)
(* the Segmenter over jieba's process-wide lexicon, the TOCFL tagger, the  *)
(* entity extractor, the Article type with its section offsets and the     *)
(* sectioned Article ingestion makes, the simplifier, the HTMLWrapper and  *)
(* the ArticleProcessor that chains them.                                  *)
(*                                                                         *)
(* Text is a sequence of one-character strings.  A word, a token and a     *)
(* paragraph are such sequences too.                                       *)
(***************************************************************************)
EXTENDS Integers, Sequences, FiniteSets, TLC

(***************************************************************************)
(* Bounds of the model.                                                    *)
(***************************************************************************)
\* longest text handed to the segmenter
MaxTextLen == 3
\* jieba.add_word calls after which no more custom vocabulary is handed in
MaxAddWord == 2

(***************************************************************************)
(* Characters and Python's character classes.                              *)
(***************************************************************************)
\* CJK characters: "a" stands for a very frequent character, "b" and "c"
\* for ordinary ones
Han == {"a", "b", "c"}
\* matched by \s
WhiteSpace == {" ", "\n"}
\* punctuation matched by \W
PunctChars == {"!"}
\* punctuation that \w matches (Unicode category Pc)
WordPunct == {"_"}
\* [\s\W]
SpaceOrNonWord == WhiteSpace \cup PunctChars
\* jieba's re_han_default: the characters cut as a block against the lexicon
BlockChars == Han \cup WordPunct

SeqsUpTo(S, n) == UNION {[1..k -> S] : k \in 0..n}

\* the number of leading elements of s that are in S
RECURSIVE RunLen(_, _)
RunLen(s, S) ==
    IF s = <<>> \/ Head(s) \notin S THEN 0 ELSE 1 + RunLen(Tail(s), S)

Drop(s, n) == SubSeq(s, n + 1, Len(s))

RECURSIVE Flatten(_)
Flatten(ss) == IF ss = <<>> THEN <<>> ELSE Head(ss) \o Flatten(Tail(ss))

\* str.strip(): leading and trailing whitespace removed
RECURSIVE rstrip(_)
rstrip(s) ==
    IF s # <<>> /\ s[Len(s)] \in WhiteSpace
    THEN rstrip(SubSeq(s, 1, Len(s) - 1)) ELSE s

strip(s) == rstrip(Drop(s, RunLen(s, WhiteSpace)))

(***************************************************************************)
(* Exact arithmetic for jieba's route weights.  jieba compares sums of     *)
(* log(freq) - log(total); the model compares the products of freq/total   *)
(* they are the logarithms of, as naturals in base 10000, least            *)
(* significant digit first.                                                *)
(***************************************************************************)
RECURSIVE BigFromInt(_)
BigFromInt(n) ==
    IF n = 0 THEN <<>> ELSE <<n % 10000>> \o BigFromInt(n \div 10000)

RECURSIVE BigMulCarry(_, _, _)
BigMulCarry(a, m, c) ==
    IF a = <<>> THEN BigFromInt(c)
    ELSE LET v == Head(a) * m + c
         IN  <<v % 10000>> \o BigMulCarry(Tail(a), m, v \div 10000)

BigMul(a, m) == IF m = 0 THEN <<>> ELSE BigMulCarry(a, m, 0)

RECURSIVE BigMulPow(_, _, _)
BigMulPow(a, m, e) == IF e = 0 THEN a ELSE BigMulPow(BigMul(a, m), m, e - 1)

\* -1, 0 or 1
RECURSIVE BigCmp(_, _)
BigCmp(a, b) ==
    IF Len(a) # Len(b) THEN (IF Len(a) < Len(b) THEN -1 ELSE 1)
    ELSE IF a = <<>> THEN 0
    ELSE LET n == Len(a)
         IN  IF a[n] # b[n] THEN (IF a[n] < b[n] THEN -1 ELSE 1)
             ELSE BigCmp(SubSeq(a, 1, n - 1), SubSeq(b, 1, n - 1))

(***************************************************************************)
(* jieba: the default tokenizer jieba.dt, one per process.  Its lexicon is *)
(* FREQ (word -> frequency, every prefix of a word present, with 0 when    *)
(* the prefix is no word) and total (the sum of the frequencies).          *)
(***************************************************************************)
\* the lexicon after jieba.initialize(): "bc" is a dictionary word
BaseLexicon ==
    [FREQ  |-> (<<"a">> :> 4000) @@ (<<"b">> :> 10) @@ (<<"c">> :> 10)
               @@ (<<"b", "c">> :> 20),
     total |-> 9000]

\* the statistical model of jieba.finalseg, as the set of adjacent character
\* pairs it labels (B, E): the models the checker ranges over
HMMModels == {{}, {<<"a", "b">>}, Han \X Han}

FreqGet(F, w) == IF w \in DOMAIN F THEN F[w] ELSE 0

Prefixes(w) == {SubSeq(w, 1, k) : k \in 1..Len(w)}

\* Tokenizer.add_word(word, freq)
jieba_add_word(lex, word, freq) ==
    [FREQ  |-> [w \in DOMAIN lex.FREQ \cup Prefixes(word) |->
                   IF w = word THEN freq ELSE FreqGet(lex.FREQ, w)],
     total |-> lex.total + freq]

\* Tokenizer.get_DAG: the ends i of the lexicon words that start at k
RECURSIVE DAGFrom(_, _, _, _)
DAGFrom(F, s, k, i) ==
    IF i > Len(s) \/ SubSeq(s, k, i) \notin DOMAIN F THEN {}
    ELSE (IF F[SubSeq(s, k, i)] > 0 THEN {i} ELSE {})
         \cup DAGFrom(F, s, k, i + 1)

get_DAG(F, s, k) ==
    LET ends == DAGFrom(F, s, k, k) IN IF ends = {} THEN {k} ELSE ends

\* max() over (weight, x): the heavier route, the longer first word on a tie
RouteGE(total, c, d) ==
    LET m   == IF c.k < d.k THEN c.k ELSE d.k
        cmp == BigCmp(BigMulPow(c.num, total, d.k - m),
                      BigMulPow(d.num, total, c.k - m))
    IN  cmp = 1 \/ (cmp = 0 /\ c.x >= d.x)

\* Tokenizer.calc: route[idx], the best way to cut s from idx on; its weight
\* is num / total^k and its first word ends at x
RECURSIVE calc(_, _, _)
calc(lex, s, idx) ==
    IF idx > Len(s) THEN [num |-> <<1>>, k |-> 0, x |-> 0]
    ELSE LET cands ==
                 { LET r == calc(lex, s, x + 1)
                       f == FreqGet(lex.FREQ, SubSeq(s, idx, x))
                   IN  [num |-> BigMul(r.num, IF f = 0 THEN 1 ELSE f),
                        k   |-> r.k + 1,
                        x   |-> x] : x \in get_DAG(lex.FREQ, s, idx) }
         IN  CHOOSE c \in cands : \A d \in cands : RouteGE(lex.total, c, d)

\* finalseg's Viterbi cut of a run of CJK characters under the model h
RECURSIVE hmm_cut(_, _)
hmm_cut(h, r) ==
    IF r = <<>> THEN <<>>
    ELSE IF Len(r) >= 2 /\ <<r[1], r[2]>> \in h
         THEN <<SubSeq(r, 1, 2)>> \o hmm_cut(h, Drop(r, 2))
         ELSE <<SubSeq(r, 1, 1)>> \o hmm_cut(h, Drop(r, 1))

\* finalseg.cut: CJK runs go to the HMM, a run of other characters is one piece
RECURSIVE finalseg_cut(_, _)
finalseg_cut(h, buf) ==
    IF buf = <<>> THEN <<>>
    ELSE IF Head(buf) \in Han
         THEN LET n == RunLen(buf, Han)
              IN  hmm_cut(h, SubSeq(buf, 1, n)) \o finalseg_cut(h, Drop(buf, n))
         ELSE LET n == RunLen(buf, BlockChars \ Han)
              IN  <<SubSeq(buf, 1, n)>> \o finalseg_cut(h, Drop(buf, n))

\* the buffer of single characters of __cut_DAG, emitted
flush_buf(lex, h, buf) ==
    IF buf = <<>> THEN <<>>
    ELSE IF Len(buf) = 1 THEN <<buf>>
    ELSE IF FreqGet(lex.FREQ, buf) = 0 THEN finalseg_cut(h, buf)
    ELSE [i \in 1..Len(buf) |-> <<buf[i]>>]

\* Tokenizer.__cut_DAG on one block, from position x with buffer buf
RECURSIVE cut_DAG(_, _, _, _, _)
cut_DAG(lex, h, s, x, buf) ==
    IF x > Len(s) THEN flush_buf(lex, h, buf)
    ELSE LET y == calc(lex, s, x).x
         IN  IF y = x
             THEN cut_DAG(lex, h, s, x + 1, Append(buf, s[x]))
             ELSE flush_buf(lex, h, buf) \o <<SubSeq(s, x, y)>>
                  \o cut_DAG(lex, h, s, y + 1, <<>>)

\* jieba.cut(sentence, cut_all=False): blocks of re_han_default are cut
\* against the lexicon, every other character is a token of its own
RECURSIVE jieba_cut(_, _, _)
jieba_cut(lex, h, s) ==
    IF s = <<>> THEN <<>>
    ELSE IF Head(s) \in BlockChars
         THEN LET n == RunLen(s, BlockChars)
              IN  cut_DAG(lex, h, SubSeq(s, 1, n), 1, <<>>)
                  \o jieba_cut(lex, h, Drop(s, n))
         ELSE <<SubSeq(s, 1, 1)>> \o jieba_cut(lex, h, Drop(s, 1))

(***************************************************************************)
(* Segmenter (preprocessing/segmentation.py).                              *)
(***************************************************************************)
\* the frequency add_words_to_dictionary gives a custom word
CustomFreq == 1000

\* _clean_word: the stripped word, or None (some = FALSE)
clean_word(word) ==
    LET w == strip(word)
    IN  IF w # <<>> /\ \A i \in 1..Len(w) : w[i] \in SpaceOrNonWord
        THEN [some |-> FALSE, val |-> <<>>]
        ELSE [some |-> TRUE, val |-> w]

\* add_words_to_dictionary: the lexicon after the loop over words
RECURSIVE add_words_to_dictionary(_, _)
add_words_to_dictionary(lex, words) ==
    IF words = <<>> THEN lex
    ELSE add_words_to_dictionary(jieba_add_word(lex, Head(words), CustomFreq),
                                 Tail(words))

\* the loop of segment_text over the cutter's words
RECURSIVE cleaned_words(_)
cleaned_words(words) ==
    IF words = <<>> THEN <<>>
    ELSE LET cleaned == clean_word(Head(words))
         IN  (IF cleaned.some /\ cleaned.val # <<>> THEN <<cleaned.val>> ELSE <<>>)
             \o cleaned_words(Tail(words))

\* segment_text(text, custom_words): the lexicon it leaves and the list it
\* returns
segment_text(lex, h, text, custom_words) ==
    LET lex2 == IF custom_words # <<>>
                THEN add_words_to_dictionary(lex, custom_words) ELSE lex
    IN  [lex |-> lex2, words |-> cleaned_words(jieba_cut(lex2, h, text))]

(***************************************************************************)
(* LLMClient (utils/llm_client.py).  _make_request returns the content of  *)
(* the reply, or None when the request fails; _clean_json_response returns *)
(* the parsed JSON, or None when there is no content or it does not parse. *)
(* What a call returns is drawn by the action that makes it:               *)
(*   [kind |-> "none"]              None                                   *)
(*   [kind |-> "dict", d |-> f]     a JSON object, as a function           *)
(*   [kind |-> "list", items |-> s] a JSON array                           *)
(* A member of an array that classify_words returns is                     *)
(*   [t |-> "str", s |-> chars]     a JSON string                          *)
(*   [t |-> "list", s |-> members]  a JSON array of strings: a word, then  *)
(*                                  levels                                 *)
(***************************************************************************)
LLMNone == [kind |-> "none"]

\* dict.update(iterable) reads each item as a sequence of length 2, a key
\* and a value: a str as its characters, a list as its members.  An item
\* of another length raises ValueError.
update_item_is_pair(item) == Len(item.s) = 2
update_item_key(item) == IF item.t = "str" THEN <<item.s[1]>> ELSE item.s[1]
update_item_value(item) == item.s[2]

\* the dict a list of pairs is read as: of a key, the value of its last pair
update_items_as_dict(items) ==
    LET keys    == {update_item_key(items[i]) : i \in 1..Len(items)}
        last(w) == CHOOSE i \in 1..Len(items) :
                       /\ update_item_key(items[i]) = w
                       /\ \A j \in (i + 1)..Len(items) : update_item_key(items[j]) # w
    IN  [w \in keys |-> update_item_value(items[last(w)])]

\* word in a_list: the word equals a member
list_contains(items, word) ==
    \E i \in 1..Len(items) : items[i].t = "str" /\ items[i].s = word

(***************************************************************************)
(* TOCFLTagger (preprocessing/tocfl_tagger.py).                            *)
(***************************************************************************)
cefr_levels == <<"A0", "A1", "A2", "B1", "B2", "C1", "C2", "unknown">>

\* the frequency _load_tocfl_dictionary gives both forms of a row
DictFreq == 1000

\* the rows of the TOCFL csv the tagger is constructed from
TocflRows ==
    <<[traditional |-> <<"b">>, simplified |-> <<"c">>, cefr_level |-> "A1"]>>

\* _load_tocfl_dictionary: word_dict after the loop over the rows
RECURSIVE load_word_dict(_)
load_word_dict(rows) ==
    IF rows = <<>> THEN <<>>
    ELSE LET row  == rows[Len(rows)]
             info == [level |-> row.cefr_level, simplified |-> row.simplified]
         IN  (row.simplified :> info) @@ (row.traditional :> info)
             @@ load_word_dict(SubSeq(rows, 1, Len(rows) - 1))

\* _load_tocfl_dictionary: jieba's lexicon after the loop over the rows
RECURSIVE load_jieba_words(_, _)
load_jieba_words(lex, rows) ==
    IF rows = <<>> THEN lex
    ELSE load_jieba_words(
             jieba_add_word(jieba_add_word(lex, Head(rows).traditional, DictFreq),
                            Head(rows).simplified, DictFreq),
             Tail(rows))

\* a cell the csv leaves empty, as pandas reads it: NaN, a float
NaNWord == <<"nan">>
NaNLevel == "nan"

\* _load_tocfl_dictionary(path): jieba.add_word raises on a written form that
\* is no str, after the rows before it were entered; otherwise the word_dict
\* returned.  lex is jieba's lexicon after the call.
load_tocfl_dictionary(lex, rows) ==
    LET bad == {i \in 1..Len(rows) :
                    NaNWord \in {rows[i].traditional, rows[i].simplified}}
    IN  IF bad = {}
        THEN [raised |-> FALSE, word_dict |-> load_word_dict(rows),
              lex |-> load_jieba_words(lex, rows)]
        ELSE LET i == CHOOSE j \in bad : \A k \in bad : j <= k
                 before == load_jieba_words(lex, SubSeq(rows, 1, i - 1))
             IN  [raised |-> TRUE, word_dict |-> <<>>,
                  lex |-> IF rows[i].traditional = NaNWord THEN before
                          ELSE jieba_add_word(before, rows[i].traditional, DictFreq)]

\* get_word_info: the entry of the word, or None (some = FALSE)
get_word_info(word_dict, word) ==
    IF word \in DOMAIN word_dict
    THEN [some |-> TRUE, level |-> word_dict[word].level,
          simplified |-> word_dict[word].simplified]
    ELSE [some |-> FALSE, level |-> "", simplified |-> <<>>]

Range(s) == {s[i] : i \in DOMAIN s}

\* the words of the first pass that the dictionary does not know
unknown_words_of(word_dict, words) ==
    {w \in Range(words) : ~get_word_info(word_dict, w).some}

\* classify_unknown_words: {} without a call for no word, else what
\* llm_client.classify_words returns
classify_unknown_words(unknown_words, reply) ==
    IF unknown_words = {} THEN [kind |-> "dict", d |-> <<>>] ELSE reply

\* get_word_level_map(words), the fallback classifier replying reply: the map
\* returned, or the exception raised out of it.  word_level_map.update reads
\* a dict by its items and a list by its members as pairs, a later pair
\* overwriting an earlier one; the loop after it writes 'unknown' for each
\* unknown word that is not in classifications (no key of the dict, no
\* member of the list).
get_word_level_map(word_dict, words, reply) ==
    LET known   == {w \in Range(words) : get_word_info(word_dict, w).some}
        unknown == unknown_words_of(word_dict, words)
        first   == [w \in known |-> get_word_info(word_dict, w).level]
    IN  IF unknown = {} THEN [raised |-> FALSE, map |-> first]
        ELSE LET classifications == classify_unknown_words(unknown, reply)
             IN  IF classifications.kind = "dict"
                 THEN LET c == classifications.d
                      IN  [raised |-> FALSE,
                           map |-> [w \in known \cup DOMAIN c \cup unknown |->
                                      IF w \in DOMAIN c THEN c[w]
                                      ELSE IF w \in unknown THEN "unknown"
                                      ELSE first[w]]]
                 ELSE IF classifications.kind = "list"
                 THEN LET items  == classifications.items
                          pairs  == update_items_as_dict(items)
                          keys   == DOMAIN pairs
                          absent == {w \in unknown : ~list_contains(items, w)}
                      IN  IF \E i \in 1..Len(items) : ~update_item_is_pair(items[i])
                          \* dict.update of a member that is no pair
                          THEN [raised |-> TRUE, map |-> <<>>]
                          ELSE [raised |-> FALSE,
                                map |-> [w \in known \cup keys \cup absent |->
                                           IF w \in absent THEN "unknown"
                                           ELSE IF w \in keys THEN pairs[w]
                                           ELSE first[w]]]
                 \* dict.update(None)
                 ELSE [raised |-> TRUE, map |-> <<>>]

(***************************************************************************)
(* The objects of a tagger call.  A call runs on st = [heap, frame]: heap  *)
(* is the sequence of the dicts and sets alive, self.word_dict the first   *)
(* of them and after it the objects earlier calls returned; frame is the   *)
(* place in heap of the object each name of the running call is bound to.  *)
(* Every statement that writes names the object it writes.                 *)
(***************************************************************************)
\* name = {}, name = set(): a new object, the name bound to it
py_new(st, name, empty) ==
    [st EXCEPT !.heap = Append(@, empty),
               !.frame = (name :> (Len(st.heap) + 1)) @@ @]

\* the object a name is bound to
py_object(st, name) == st.heap[st.frame[name]]

\* name[key] = items[key], for every key of items
py_setitems(st, name, items) == [st EXCEPT !.heap[st.frame[name]] = items @@ @]

\* name.add(x), for every x of elems
py_add(st, name, elems) == [st EXCEPT !.heap[st.frame[name]] = @ \cup elems]

\* name.remove(x), for every x of elems that is in the set
py_remove(st, name, elems) == [st EXCEPT !.heap[st.frame[name]] = @ \ elems]

\* name[key].add(x), for every x of elems
py_add_in(st, name, key, elems) ==
    [st EXCEPT !.heap[st.frame[name]][key] = @ \cup elems]

\* return name: the object stays alive with the caller, after the objects
\* that were alive at entry; the other objects the call made are dropped
py_return(entry, st, name) ==
    LET ref  == st.frame[name]
        kept == SubSeq(st.heap, 1, Len(entry.heap))
    IN  IF ref > Len(entry.heap)
        THEN [raised |-> FALSE, heap |-> Append(kept, st.heap[ref]),
              ref |-> Len(entry.heap) + 1]
        ELSE [raised |-> FALSE, heap |-> kept, ref |-> ref]

\* return of what is no object the tagger makes (None, the reply of the
\* fallback, an entry of self.word_dict); ref 0 stands for it
py_return_value(entry, st) ==
    [raised |-> FALSE, heap |-> SubSeq(st.heap, 1, Len(entry.heap)), ref |-> 0]

\* an exception leaving the call: the objects the call made are dropped
py_raise(entry, st) ==
    [raised |-> TRUE, heap |-> SubSeq(st.heap, 1, Len(entry.heap)), ref |-> 0]

\* word in classifications
py_in(word, classifications) ==
    IF classifications.kind = "dict" THEN word \in DOMAIN classifications.d
    ELSE list_contains(classifications.items, word)

\* name.update(classifications): TypeError for None, ValueError for a list
\* member that is no pair
dict_update(st, name, classifications) ==
    IF classifications.kind = "dict"
    THEN [raised |-> FALSE, st |-> py_setitems(st, name, classifications.d)]
    ELSE IF /\ classifications.kind = "list"
            /\ \A i \in 1..Len(classifications.items) :
                   update_item_is_pair(classifications.items[i])
    THEN [raised |-> FALSE,
          st |-> py_setitems(st, name, update_items_as_dict(classifications.items))]
    ELSE [raised |-> TRUE, st |-> st]

\* a tagger that remembers what the fallback classified in self.word_dict
update_classifications_caching(st, classifications) ==
    LET r == dict_update(st, "word_level_map", classifications)
    IN  IF r.raised \/ classifications.kind # "dict" THEN r
        ELSE [r EXCEPT !.st = py_setitems(@, "self.word_dict",
                                  [w \in DOMAIN classifications.d |->
                                      [level |-> classifications.d[w], simplified |-> w]])]

\* word_level_map.update(classifications)
update_classifications(st, classifications) ==
    dict_update(st, "word_level_map", classifications)

\* get_word_info(word) as a call: no statement of it writes
get_word_info_call(entry, word) == py_return_value(entry, entry)

\* classify_unknown_words(unknown_words) as a call: a new {} for no word,
\* else the reply of the fallback
classify_unknown_words_call(entry, unknown_words, reply) ==
    IF unknown_words = {}
    THEN py_return(entry, py_new(entry, "return value", <<>>), "return value")
    ELSE py_return_value(entry, entry)

\* the first pass of get_word_level_map over words
RECURSIVE level_map_first_pass(_, _)
level_map_first_pass(st, words) ==
    IF words = <<>> THEN st
    ELSE LET word      == Head(words)
             word_info == get_word_info(py_object(st, "self.word_dict"), word)
         IN  level_map_first_pass(
                 IF word_info.some
                 THEN py_setitems(st, "word_level_map", word :> word_info.level)
                 ELSE py_add(st, "unknown_words", {word}),
                 Tail(words))

\* get_word_level_map(words) as a call, statement by statement: the heap it
\* leaves, whether it raised, the place of the dict it returned
get_word_level_map_call(entry, words, reply) ==
    LET s1 == py_new(py_new(entry, "word_level_map", <<>>), "unknown_words", {})
        s2 == level_map_first_pass(s1, words)
        unknown_words == py_object(s2, "unknown_words")
    IN  IF unknown_words = {} THEN py_return(entry, s2, "word_level_map")
        ELSE LET classifications == classify_unknown_words(unknown_words, reply)
                 r3 == update_classifications(s2, classifications)
                 remaining == {w \in unknown_words : ~py_in(w, classifications)}
             IN  IF r3.raised THEN py_raise(entry, r3.st)
                 ELSE py_return(entry,
                                py_setitems(r3.st, "word_level_map",
                                            [w \in remaining |-> "unknown"]),
                                "word_level_map")

\* the first pass of categorize_words over words: result[level] of a level
\* that is no key raises KeyError
RECURSIVE categorize_first_pass(_, _)
categorize_first_pass(r, words) ==
    IF words = <<>> \/ r.raised THEN r
    ELSE LET word      == Head(words)
             word_info == get_word_info(py_object(r.st, "self.word_dict"), word)
         IN  categorize_first_pass(
                 IF ~word_info.some
                 THEN [r EXCEPT !.st = py_add(@, "unknown_words", {word})]
                 ELSE IF word_info.level \notin DOMAIN py_object(r.st, "result")
                 THEN [r EXCEPT !.raised = TRUE]
                 ELSE [r EXCEPT !.st = py_add_in(@, "result", word_info.level,
                                                 {word_info.simplified})],
                 Tail(words))

\* categorize_words(words) as a call, statement by statement.  The dict it
\* returns is a new one, of the levels of result that have a word; the
\* sorted list of a level is the set of its members.
categorize_words_call(entry, words, reply) ==
    LET s0 == py_new(entry, "result", <<>>)
        s1 == py_new(py_setitems(s0, "result", [level \in Range(cefr_levels) |-> {}]),
                     "unknown_words", {})
        r2 == categorize_first_pass([raised |-> FALSE, st |-> s1], words)
        unknown_words == py_object(r2.st, "unknown_words")
        classifications == classify_unknown_words(unknown_words, reply)
        c  == classifications.d
        result == py_object(r2.st, "result")
        s3 == IF unknown_words = {} THEN r2.st
              ELSE py_remove(
                       py_setitems(r2.st, "result",
                                   [level \in DOMAIN result |->
                                       result[level] \cup {w \in DOMAIN c : c[w] = level}]),
                       "unknown_words", DOMAIN c)
        s4 == py_add_in(s3, "result", "unknown", py_object(s3, "unknown_words"))
        grouped == py_object(s4, "result")
        s5 == py_setitems(py_new(s4, "return value", <<>>), "return value",
                          [level \in {l \in DOMAIN grouped : grouped[l] # {}} |->
                               grouped[level]])
    IN  IF r2.raised THEN py_raise(entry, r2.st)
        \* None and a list have no items()
        ELSE IF unknown_words # {} /\ classifications.kind # "dict"
        THEN py_raise(entry, r2.st)
        \* result[level] of a level that is no key
        ELSE IF unknown_words # {} /\ \E w \in DOMAIN c : c[w] \notin DOMAIN result
        THEN py_raise(entry, r2.st)
        ELSE py_return(entry, s5, "return value")

\* the batches one classify_unknown_words call hands to
\* llm_client.classify_words: none when there is no unknown word, else one
classify_words_batches(word_dict, words) ==
    LET unknown == unknown_words_of(word_dict, words)
    IN  IF unknown = {} THEN <<>> ELSE <<unknown>>

\* categorize_words(words), the fallback classifier replying reply: the
\* groups by level (those with a member, in the order of cefr_levels), or the
\* exception raised out of it.  A group is the set its sorted list holds.
categorize_words(word_dict, words, reply) ==
    LET tiers   == Range(cefr_levels)
        known   == {w \in Range(words) : get_word_info(word_dict, w).some}
        unknown == unknown_words_of(word_dict, words)
        classifications == classify_unknown_words(unknown, reply)
        c       == IF classifications.kind = "dict" THEN classifications.d ELSE <<>>
        group(level) ==
            {get_word_info(word_dict, w).simplified :
                 w \in {k \in known : get_word_info(word_dict, k).level = level}}
            \cup {w \in DOMAIN c : c[w] = level}
            \cup (IF level = "unknown" THEN unknown \ DOMAIN c ELSE {})
        present == SelectSeq(cefr_levels, LAMBDA level : group(level) # {})
    IN  IF \/ \E w \in known : get_word_info(word_dict, w).level \notin tiers
           \* None and a list have no items()
           \/ (unknown # {} /\ classifications.kind # "dict")
           \* result[level] of a level that is no key
           \/ \E w \in DOMAIN c : c[w] \notin tiers
        THEN [raised |-> TRUE, groups |-> <<>>]
        ELSE [raised |-> FALSE,
              groups |-> [i \in 1..Len(present) |->
                            [level |-> present[i], words |-> group(present[i])]]]

(***************************************************************************)
(* Python dicts that are iterated keep their insertion order: such a dict  *)
(* is a sequence of [key, value] records with distinct keys.               *)
(***************************************************************************)
od_keys(d) == [i \in 1..Len(d) |-> d[i].key]

od_has(d, k) == \E i \in 1..Len(d) : d[i].key = k

od_get(d, k) == d[CHOOSE i \in 1..Len(d) : d[i].key = k].value

\* d[k] = v
od_set(d, k, v) ==
    IF od_has(d, k)
    THEN [i \in 1..Len(d) |-> IF d[i].key = k THEN [key |-> k, value |-> v] ELSE d[i]]
    ELSE Append(d, [key |-> k, value |-> v])

(***************************************************************************)
(* EntityExtractor (preprocessing/entity_extraction.py).  A raw entity is  *)
(* [word, type, english]; a field the reply lacks reads as None, which     *)
(* all() takes like the empty string: both are <<>> (word, english) or ""  *)
(* (type) here.                                                            *)
(***************************************************************************)
EntityCategories == <<"names", "places", "organizations", "misc">>

NoEntities == [names |-> <<>>, places |-> <<>>, organizations |-> <<>>, misc |-> <<>>]

\* a type_mapping that files every type it does not know under misc
type_mapping_lenient(entity_type) ==
    CASE entity_type = "person"       -> "names"
      [] entity_type = "place"        -> "places"
      [] entity_type = "organization" -> "organizations"
      [] OTHER                        -> "misc"

\* type_mapping.get(entity_type): "" stands for None
type_mapping(entity_type) ==
    CASE entity_type = "person"       -> "names"
      [] entity_type = "place"        -> "places"
      [] entity_type = "organization" -> "organizations"
      [] entity_type = "other"        -> "misc"
      [] OTHER                        -> ""

\* the loop of extract_entities over the raw entities
RECURSIVE resolve_entities(_, _)
resolve_entities(result, entities) ==
    IF entities = <<>> THEN result
    ELSE LET entity   == Head(entities)
             category == type_mapping(entity.type)
         IN  resolve_entities(
                 IF \/ entity.word = <<>> \/ entity.type = "" \/ entity.english = <<>>
                    \/ category = ""
                 THEN result
                 ELSE [result EXCEPT
                         ![category] = od_set(@, entity.word, entity.english)],
                 Tail(entities))

\* extract_entities(article), llm_client.extract_entities replying reply: the
\* table returned, or the exception raised out of it
extract_entities(reply) ==
    IF reply.kind = "none" THEN [raised |-> FALSE, entities |-> NoEntities]
    ELSE IF reply.kind = "dict"
         \* an empty object is falsy; the keys of any other are strings,
         \* which have no get()
         THEN [raised |-> reply.d # <<>>, entities |-> NoEntities]
         ELSE [raised |-> FALSE,
               entities |-> resolve_entities(NoEntities, reply.items)]

\* get_all_entities: the keys of every category, one after another
get_all_entities(entities_dict) ==
    Flatten([i \in 1..Len(EntityCategories) |->
                od_keys(entities_dict[EntityCategories[i]])])

(***************************************************************************)
(* Article (article/article.py).  graded_content is an insertion-ordered   *)
(* dict; None reads as the empty dict in every operation modelled.         *)
(***************************************************************************)
\* list[index] of Python: the position in 1..Len(s), or 0 for an IndexError
py_index(s, index) ==
    IF index >= 0 THEN (IF index < Len(s) THEN index + 1 ELSE 0)
    ELSE (IF index + Len(s) >= 0 THEN index + Len(s) + 1 ELSE 0)

\* s[start:end] of Python
py_slice(s, start, end) ==
    LET clamp(i) == LET j == IF i < 0 THEN i + Len(s) ELSE i
                    IN  IF j < 0 THEN 0 ELSE IF j > Len(s) THEN Len(s) ELSE j
    IN  SubSeq(s, clamp(start) + 1, clamp(end))

\* get_section_content(index): the pair returned, or the IndexError raised
get_section_content(article, index) ==
    IF \/ index >= Len(article.mandarin_section_indices)
       \/ index >= Len(article.english_section_indices)
       \/ py_index(article.mandarin_section_indices, index) = 0
       \/ py_index(article.english_section_indices, index) = 0
    THEN [raised |-> TRUE, mandarin |-> <<>>, english |-> <<>>]
    ELSE LET m == article.mandarin_section_indices[
                      py_index(article.mandarin_section_indices, index)]
             e == article.english_section_indices[
                      py_index(article.english_section_indices, index)]
         IN  [raised   |-> FALSE,
              mandarin |-> strip(py_slice(article.mandarin_content, m[1], m[2])),
              english  |-> strip(py_slice(article.english_content, e[1], e[2]))]

\* add_graded_version assigning a new dict instead of setting one key
add_graded_version_replacing(article, level, content) ==
    [article EXCEPT !.graded_content = <<[key |-> level, value |-> content]>>]

\* add_graded_version(level, content): the article after the call
add_graded_version(article, level, content) ==
    [article EXCEPT !.graded_content = od_set(@, level, content)]

\* Article(...): the dataclass stores the fields it is given
Article(article_id, mandarin_content, english_content, mandarin_section_indices, english_section_indices, graded_content) ==
    [article_id |-> article_id,
     mandarin_content |-> mandarin_content,
     english_content |-> english_content,
     mandarin_section_indices |-> mandarin_section_indices,
     english_section_indices |-> english_section_indices,
     graded_content |-> graded_content]

\* Article.from_dict(data)
from_dict(data) ==
    Article(data.article_id, data.mandarin_content, data.english_content,
            data.mandarin_section_indices, data.english_section_indices,
            data.graded_content)

(***************************************************************************)
(* Ingestion (fetch_articles.py).  It imports Article and ArticleSection   *)
(* of article.py, the article that is a list of sections: a class other    *)
(* than the Article of article/article.py, without offset tables, without  *)
(* graded_content, get_section_content and add_graded_version.             *)
(***************************************************************************)
\* Optional[str]: None, or a text
NoText == [some |-> FALSE, val |-> <<>>]
Some(text) == [some |-> TRUE, val |-> text]

\* zip(a, b)
zip(a, b) ==
    [i \in 1..(IF Len(a) < Len(b) THEN Len(a) ELSE Len(b)) |->
         [mandarin |-> a[i], english |-> b[i]]]

\* ArticleSection(mandarin, english), graded left None
ArticleSection(mandarin, english) ==
    [mandarin |-> mandarin, english |-> english, graded |-> <<>>]

\* Article(...) of article.py: the dataclass stores the sections it is given
SectionedArticle(article_id, sections) ==
    [article_id |-> article_id, sections |-> sections]

\* section.add_graded_version(level, text): graded, None until the first
\* call, is a dict from then on; None and {} both read as <<>>, no method
\* of the class tells them apart but to_dict
section_add_graded_version(section, level, text) ==
    [section EXCEPT !.graded = od_set(@, level, text)]

\* what an Article of article.py answers to besides its identity fields
SectionedArticleAttributes ==
    {"sections", "mandarin_content", "english_content", "get_graded_content",
     "to_dict", "from_dict"}

\* separator.join(parts)
RECURSIVE join(_, _)
join(separator, parts) ==
    IF parts = <<>> THEN <<>>
    ELSE IF Len(parts) = 1 THEN Head(parts)
    ELSE Head(parts) \o separator \o join(separator, Tail(parts))

Separator == <<"\n", "\n">>

\* the properties mandarin_content and english_content of article.py
sectioned_mandarin_content(article) ==
    join(Separator, [i \in 1..Len(article.sections) |-> article.sections[i].mandarin])
sectioned_english_content(article) ==
    join(Separator, [i \in 1..Len(article.sections) |-> article.sections[i].english])

\* article.get_graded_content(level) of article.py: the Mandarin content for
\* 'native'; None unless every section has the level; else the sections'
\* graded texts joined
sectioned_get_graded_content(article, level) ==
    LET sections == article.sections
    IN  IF level = "native" THEN Some(sectioned_mandarin_content(article))
        ELSE IF ~(\A i \in 1..Len(sections) :
                     sections[i].graded # <<>> /\ od_has(sections[i].graded, level))
        THEN NoText
        ELSE Some(join(Separator, [i \in 1..Len(sections) |->
                                      od_get(sections[i].graded, level)]))

\* Article.from_dict(data) of article.py: a section of each stored section,
\* graded as stored (None when the key is missing)
sectioned_from_dict(data) ==
    SectionedArticle(data.article_id,
                     [i \in 1..Len(data.sections) |->
                         [mandarin |-> data.sections[i].mandarin,
                          english  |-> data.sections[i].english,
                          graded   |-> data.sections[i].graded]])

\* the loop of processing_articles.py over graded_versions.items()
RECURSIVE add_graded_versions(_, _)
add_graded_versions(section, graded_versions) ==
    IF graded_versions = <<>> THEN section
    ELSE add_graded_versions(
             section_add_graded_version(section, Head(graded_versions).key,
                                        Head(graded_versions).value),
             Tail(graded_versions))

\* ArticleProcessor.process_article(article) of processing_articles.py, the
\* grading request answering graded_versions ({} when it fails): the loop
\* over the sections breaks after the first
processing_articles_process_article(article, graded_versions) ==
    IF article.sections = <<>> \/ graded_versions = <<>> THEN article
    ELSE [article EXCEPT !.sections[1] = add_graded_versions(@, graded_versions)]

\* create_article_from_raw(raw_data, source): the paragraphs paired by zip,
\* the Article of article.py made of the sections
create_article_from_raw(raw_data) ==
    LET pairs == zip(raw_data.mandarin_paragraphs, raw_data.english_paragraphs)
    IN  [raised  |-> FALSE,
         article |-> SectionedArticle(
                         "R", [i \in 1..Len(pairs) |->
                                  ArticleSection(pairs[i].mandarin, pairs[i].english)])]

\* align(paragraphs): the full text and the span of each paragraph in it
align(paragraphs) ==
    [full_text |-> join(Separator, paragraphs),
     offsets   |-> [i \in 1..Len(paragraphs) |->
                      LET start == Len(join(Separator, SubSeq(paragraphs, 1, i - 1)))
                                   + (IF i > 1 THEN Len(Separator) ELSE 0)
                      IN  <<start, start + Len(paragraphs[i])>>]]

\* the article with full texts and offset tables for paired paragraph
\* lists, or SectionCountMismatch for lists of different lengths
aligned_article(article_id, mandarin_paragraphs, english_paragraphs) ==
    LET m == align(mandarin_paragraphs)
        e == align(english_paragraphs)
    IN  IF Len(mandarin_paragraphs) # Len(english_paragraphs)
        THEN [raised |-> TRUE, article |-> Article("", <<>>, <<>>, <<>>, <<>>, <<>>)]
        ELSE [raised  |-> FALSE,
              article |-> Article(article_id, m.full_text, e.full_text,
                                  m.offsets, e.offsets, <<>>)]

(***************************************************************************)
(* ArticleSimplifier (main_processing/simplify_articles.py) over           *)
(* LLMClient.simplify_to_multiple_levels.                                  *)
(***************************************************************************)
\* level_mapping.items()
level_mapping ==
    <<[key |-> "BEGINNER", value |-> "A2"], [key |-> "INTERMEDIATE", value |-> "B1"]>>

\* simplify_to_multiple_levels: reply.multi is the parsed reply to the
\* multi-level prompt, reply.each[level] the content of the reply to the
\* prompt for one level (some = FALSE: None)
simplify_to_multiple_levels(zh_content, reply) ==
    IF reply.multi.kind = "dict" /\ reply.multi.d # <<>>
    THEN ("original" :> zh_content) @@ reply.multi.d
    ELSE LET got == {i \in 1..Len(level_mapping) :
                         /\ reply.each[level_mapping[i].value].some
                         /\ reply.each[level_mapping[i].value].val # <<>>}
         IN  ("original" :> zh_content)
             @@ [level \in {level_mapping[i].value : i \in got} |->
                     reply.each[level].val]

\* the loop of simplify_article over level_mapping
RECURSIVE add_simplified_versions(_, _, _)
add_simplified_versions(article, simplified_versions, levels) ==
    IF levels = <<>> THEN article
    ELSE add_simplified_versions(
             IF Head(levels).value \in DOMAIN simplified_versions
             THEN add_graded_version(article, Head(levels).key,
                                     simplified_versions[Head(levels).value])
             ELSE article,
             simplified_versions, Tail(levels))

\* the call of llm_client.simplify_to_multiple_levels raising: simplify_article
\* has no handler around it
LLMRaises == [kind |-> "raise"]
simplify_article_raises(reply) == reply.multi.kind = "raise"

\* simplify_article(article): the article after the call
simplify_article(article, reply) ==
    add_simplified_versions(
        article, simplify_to_multiple_levels(article.mandarin_content, reply),
        level_mapping)

\* simplify_article on an Article of article.py: its contents are read, and
\* the first level the service returned is handed to add_graded_version,
\* which that class does not have (AttributeError)
simplify_sectioned_article_raises(article, reply) ==
    \/ simplify_article_raises(reply)
    \/ /\ "add_graded_version" \notin SectionedArticleAttributes
       /\ \E i \in 1..Len(level_mapping) :
              level_mapping[i].value
                  \in DOMAIN simplify_to_multiple_levels(
                                 sectioned_mandarin_content(article), reply)

(***************************************************************************)
(* Segmenter.segment_article.                                              *)
(***************************************************************************)
\* the loop of segment_article over graded_content.items()
RECURSIVE segment_graded(_, _, _, _, _)
segment_graded(lex, h, graded, custom_words, result) ==
    IF graded = <<>> THEN [lex |-> lex, versions |-> result]
    ELSE LET r == segment_text(lex, h, Head(graded).value, custom_words)
         IN  segment_graded(r.lex, h, Tail(graded), custom_words,
                            od_set(result, Head(graded).key, r.words))

\* segment_article(article, custom_words): the lexicon it leaves and the dict
\* of word lists it returns, 'native' first
segment_article(lex, h, article, custom_words) ==
    LET r == segment_text(lex, h, article.mandarin_content, custom_words)
    IN  segment_graded(r.lex, h, article.graded_content, custom_words,
                       <<[key |-> "native", value |-> r.words]>>)

(***************************************************************************)
(* Segmenter.get_sentence_boundaries.  Offsets count from 0; a span is     *)
(* <<start, end>>.                                                         *)
(***************************************************************************)
\* the class of the pattern: "." stands for the ideographic full stop, "^"
\* and "?" for the fullwidth exclamation and question marks
Terminators == {".", "^", "?"}

\* re.finditer(pattern, text) from offset pos on: the end of each
\* match, a terminator and all the whitespace after it
RECURSIVE sentence_match_ends(_, _)
sentence_match_ends(text, pos) ==
    LET found == {i \in (pos + 1)..Len(text) : text[i] \in Terminators}
    IN  IF found = {} THEN <<>>
        ELSE LET m   == CHOOSE i \in found : \A j \in found : i <= j
                 end == m + RunLen(Drop(text, m), WhiteSpace)
             IN  <<end>> \o sentence_match_ends(text, end)

\* get_sentence_boundaries without the segment after the last match
get_sentence_boundaries_matched(text) ==
    LET ends    == sentence_match_ends(text, 0)
        starts  == <<0>> \o ends
        matched == [i \in 1..Len(ends) |-> <<starts[i], ends[i]>>]
    IN  SelectSeq(matched, LAMBDA span : span[2] > span[1])

\* get_sentence_boundaries(text)
get_sentence_boundaries(text) ==
    LET ends    == sentence_match_ends(text, 0)
        starts  == <<0>> \o ends
        matched == [i \in 1..Len(ends) |-> <<starts[i], ends[i]>>]
        start   == starts[Len(starts)]
    IN  SelectSeq(matched, LAMBDA span : span[2] > span[1])
        \o (IF start < Len(text) THEN <<<<start, Len(text)>>>> ELSE <<>>)

(***************************************************************************)
(* HTMLWrapper (postprocessing/html_wrapper.py).  Markup is a sequence of  *)
(* pieces: a piece is one character of text, one character reference       *)
(* ("&amp;") or one piece of the markup's own syntax.                      *)
(***************************************************************************)
\* html.escape(s, quote=False)
html_escape_unquoted(text) ==
    [i \in 1..Len(text) |->
        CASE text[i] = "&"  -> "&amp;"
          [] text[i] = "<"  -> "&lt;"
          [] text[i] = ">"  -> "&gt;"
          [] OTHER          -> text[i]]

\* html.escape(s), quote=True
html_escape(text) ==
    [i \in 1..Len(text) |->
        CASE text[i] = "&"  -> "&amp;"
          [] text[i] = "<"  -> "&lt;"
          [] text[i] = ">"  -> "&gt;"
          [] text[i] = "\"" -> "&quot;"
          [] text[i] = "'"  -> "&#x27;"
          [] OTHER          -> text[i]]

\* str.lower() of a level
lower(level) ==
    CASE level = "A0" -> "a0" [] level = "A1" -> "a1" [] level = "A2" -> "a2"
      [] level = "B1" -> "b1" [] level = "B2" -> "b2"
      [] level = "C1" -> "c1" [] level = "C2" -> "c2"
      [] level = "Z9" -> "z9"
      [] OTHER        -> level

\* wrap_word(word, level, definition, pinyin, is_entity)
wrap_word(word, level, definition, pinyin, is_entity) ==
    <<"<span">>
    \o <<" class=\"word-", lower(level), "\"">>
    \o (IF definition.some /\ definition.val # <<>>
        THEN <<" data-definition=\"">> \o html_escape(definition.val) \o <<"\"">>
        ELSE <<>>)
    \o (IF pinyin.some /\ pinyin.val # <<>>
        THEN <<" data-pinyin=\"">> \o html_escape(pinyin.val) \o <<"\"">>
        ELSE <<>>)
    \o (IF is_entity THEN <<" data-entity=\"true\"">> ELSE <<>>)
    \o <<">">> \o html_escape(word) \o <<"</span>">>

\* the entity tables flattened into one dict, a later category overwriting
all_entities_of(entity_definitions) ==
    LET words == Range(get_all_entities(entity_definitions))
        last(w) == CHOOSE i \in 1..Len(EntityCategories) :
                      /\ od_has(entity_definitions[EntityCategories[i]], w)
                      /\ \A j \in (i + 1)..Len(EntityCategories) :
                            ~od_has(entity_definitions[EntityCategories[j]], w)
    IN  [w \in words |-> od_get(entity_definitions[EntityCategories[last(w)]], w)]

\* process_content joining the wrapped words with a space after each
process_content_spaced(content, words, word_levels, entity_definitions, pinyin_dict) ==
    LET all_entities == all_entities_of(entity_definitions)
    IN  Flatten([i \in 1..Len(words) |->
            wrap_word(words[i],
                      IF words[i] \in DOMAIN word_levels
                      THEN word_levels[words[i]] ELSE "unknown",
                      IF words[i] \in DOMAIN all_entities
                      THEN Some(all_entities[words[i]]) ELSE NoText,
                      IF words[i] \in DOMAIN pinyin_dict
                      THEN Some(pinyin_dict[words[i]]) ELSE NoText,
                      words[i] \in DOMAIN all_entities) \o <<" ">>])

\* process_content(content, words), the helper nested in process_article:
\* the words wrapped one after another, content not being read; word_levels,
\* entity_definitions and pinyin_dict are those of the enclosing call, a
\* pinyin_dict of None or {} being the empty dict
process_content(content, words, word_levels, entity_definitions, pinyin_dict) ==
    LET all_entities == all_entities_of(entity_definitions)
    IN  Flatten([i \in 1..Len(words) |->
            wrap_word(words[i],
                      IF words[i] \in DOMAIN word_levels
                      THEN word_levels[words[i]] ELSE "unknown",
                      IF words[i] \in DOMAIN all_entities
                      THEN Some(all_entities[words[i]]) ELSE NoText,
                      IF words[i] \in DOMAIN pinyin_dict
                      THEN Some(pinyin_dict[words[i]]) ELSE NoText,
                      words[i] \in DOMAIN all_entities)])

\* the loop of HTMLWrapper.process_article over graded_content.items(): each
\* graded version processed with the words of the call
RECURSIVE process_graded_content(_, _, _, _, _, _)
process_graded_content(graded, words, word_levels, entity_definitions, pinyin_dict, result) ==
    IF graded = <<>> THEN result
    ELSE process_graded_content(
             Tail(graded), words, word_levels, entity_definitions, pinyin_dict,
             od_set(result, Head(graded).key,
                    process_content(Head(graded).value, words, word_levels,
                                    entity_definitions, pinyin_dict)))

\* HTMLWrapper.process_article(article, words, word_levels,
\* entity_definitions, pinyin_dict): the dict of markups, 'native' first
html_wrapper_process_article(article, words, word_levels, entity_definitions, pinyin_dict) ==
    process_graded_content(
        article.graded_content, words, word_levels, entity_definitions, pinyin_dict,
        <<[key   |-> "native",
           value |-> process_content(article.mandarin_content, words, word_levels,
                                     entity_definitions, pinyin_dict)]>>)

(***************************************************************************)
(* ArticleProcessor (article/article_processor.py).  A process_article     *)
(* call is a record: pc is the step it stands before, or "raised" with     *)
(* raised_at the step the exception came from, or "done".                  *)
(***************************************************************************)
\* the methods class HTMLWrapper defines
HTMLWrapperMethods == {"__init__", "wrap_word", "process_article"}

\* process_article(article, simplify) entered; entity_reply keeps what the
\* extraction request replied, extracted counts the extract_entities
\* requests of the call, classified keeps the batches its tagger handed to
\* the fallback classifier
process_article_call(article, simplify) ==
    [pc |-> "extract", raised_at |-> "none", given |-> article,
     article |-> article, simplify |-> simplify, entity_reply |-> LLMNone,
     entities |-> NoEntities, segmented_versions |-> <<>>,
     word_level_map |-> <<>>, word_levels |-> <<>>, html_versions |-> <<>>,
     extracted |-> 0, classified |-> <<>>]

\* 1. entities = self.entity_extractor.extract_entities(article)
process_article_extract(call, reply) ==
    LET r == extract_entities(reply)
    IN  [call EXCEPT !.pc = IF r.raised THEN "raised" ELSE "segment",
                     !.raised_at = IF r.raised THEN "extract" ELSE @,
                     !.entity_reply = reply,
                     !.entities = r.entities,
                     !.extracted = @ + 1]

\* 2., 3. segmented_versions = self.segmenter.segment_article(article,
\*        custom_words=get_all_entities(entities)): the call and the lexicon
\*        after it
process_article_segment(lex, h, call) ==
    LET r == segment_article(lex, h, call.article, get_all_entities(call.entities))
    IN  [call |-> [call EXCEPT !.pc = "levels", !.segmented_versions = r.versions],
         lex  |-> r.lex]

\* 4. word_level_map = self.tocfl_tagger.get_word_level_map(words), words
\*    being segmented_versions['native']
process_article_levels(word_dict, call, reply) ==
    LET words == call.segmented_versions[1].value
        r == get_word_level_map(word_dict, words, reply)
    IN  [call EXCEPT !.pc = IF r.raised THEN "raised" ELSE "groups",
                     !.raised_at = IF r.raised THEN "levels" ELSE @,
                     !.word_level_map = r.map,
                     !.classified = @ \o classify_words_batches(word_dict, words)]

\* 5. word_levels = self.tocfl_tagger.categorize_words(words); 6. is skipped
\*    when simplify is False
process_article_groups(word_dict, call, reply) ==
    LET words == call.segmented_versions[1].value
        r == categorize_words(word_dict, words, reply)
    IN  [call EXCEPT !.pc = IF r.raised THEN "raised"
                            ELSE IF call.simplify THEN "simplify" ELSE "wrap",
                     !.raised_at = IF r.raised THEN "groups" ELSE @,
                     !.word_levels = r.groups,
                     !.classified = @ \o classify_words_batches(word_dict, words)]

\* 6. self.article_simplifier.simplify_article(article)
process_article_simplify(call, reply) ==
    IF simplify_article_raises(reply)
    THEN [call EXCEPT !.pc = "raised", !.raised_at = "simplify"]
    ELSE [call EXCEPT !.pc = "wrap", !.article = simplify_article(@, reply)]

\* 7. the loop over segmented_versions.items(): its first turn looks up
\*    self.html_wrapper.process_text, which raises AttributeError for a
\*    method the class does not define; with no version to loop over
\*    html_versions stays {} and the result is returned
process_article_wrap(call) ==
    IF call.segmented_versions # <<>> /\ "process_text" \notin HTMLWrapperMethods
    THEN [call EXCEPT !.pc = "raised", !.raised_at = "wrap"]
    ELSE [call EXCEPT !.pc = "done"]

\* the dict process_article returns
process_article_result(call) ==
    [html_versions |-> call.html_versions, entities |-> call.entities,
     word_levels |-> call.word_levels]

(***************************************************************************)
(* State.                                                                  *)
(***************************************************************************)
VARIABLES
    jieba_dt,   \* the process-wide lexicon of jieba: [FREQ, total]
    hmm,        \* the statistical model finalseg was shipped with
    seg_last,   \* the last segment_text call: its arguments and its result
    word_dict,  \* TOCFLTagger.word_dict
    tag_in,     \* a tagger call: the words and what the fallback replies
    tag_out,    \* what the tagger call did
    batch,      \* a process_batch call: its arguments, its loop, its result
    pipe,       \* the process_article call of each pipeline instance
    art,        \* an Article: how it was made and the last call on it
    load,       \* the csv a TOCFLTagger was constructed from, the last lookup
    ent,         \* an extract_entities call: the raw entries, the table, the flat list
    wrap,        \* an HTMLWrapper call: its arguments and the markup it returned
    sent,        \* a get_sentence_boundaries call: the text and the spans returned
    simp,        \* a process_article_batch call of the simplifier: its articles, its loop
    tagger      \* the dicts the tagger's calls returned, and the calls made

jiebaVars == <<jieba_dt, hmm>>
segVars   == <<seg_last>>
tagVars   == <<word_dict, tag_in, tag_out>>
batchVars == <<batch>>
pipeVars  == <<pipe>>
artVars   == <<art>>
loadVars  == <<load>>
entVars   == <<ent>>
taggerVars == <<tagger>>
simpVars == <<simp>>
sentVars  == <<sent>>
wrapVars  == <<wrap>>
vars == <<jieba_dt, hmm, seg_last, word_dict, tag_in, tag_out, batch, pipe, art, load, ent, wrap, sent, simp, tagger>>

NoCall == [called |-> FALSE, text |-> <<>>, custom |-> <<>>, words |-> <<>>]
NoTagIn == [words |-> <<>>, reply |-> LLMNone]
NoInfo == [some |-> FALSE, level |-> "", simplified |-> <<>>]
NoTagOut == [op |-> "none", prev |-> "none", raised |-> FALSE, map |-> <<>>,
             groups |-> <<>>, classifications |-> LLMNone, word |-> <<>>,
             info |-> NoInfo]
NoEnt == [pc |-> "idle", raw |-> <<>>, raised |-> FALSE, entities |-> NoEntities, all |-> <<>>]
NoSent == [pc |-> "idle", text |-> <<>>, boundaries |-> <<>>]
NoRaw == [mandarin_paragraphs |-> <<>>, english_paragraphs |-> <<>>]
NoArticle == Article("", <<>>, <<>>, <<>>, <<>>, <<>>)
NoWrap == [op |-> "none", word |-> <<>>, level |-> "", definition |-> NoText, pinyin |-> NoText, is_entity |-> FALSE, html |-> <<>>, article |-> NoArticle, words |-> <<>>, word_levels |-> <<>>, entity_definitions |-> NoEntities, pinyin_dict |-> <<>>, html_versions |-> <<>>]
NoSectioned == SectionedArticle("", <<>>)
NoArt == [made |-> "none", raw |-> NoRaw, article |-> NoArticle,
          sectioned |-> NoSectioned,
          op |-> "none", before |-> NoArticle, index |-> 0, raised |-> FALSE,
          error |-> "", mandarin |-> <<>>, english |-> <<>>, reply |-> <<>>,
          level |-> "", content |-> NoText]
NoLoad == [called |-> FALSE, rows |-> <<>>, raised |-> FALSE, word |-> <<>>,
           info |-> NoInfo]
NoArticleCall == [process_article_call(NoArticle, TRUE) EXCEPT !.pc = "none"]
\* heap: the objects the calls returned, in the order made (self.word_dict,
\* the variable word_dict, is the object before them); calls: the calls made
NoTagger == [heap |-> <<>>, calls |-> <<>>]

NoSimp == [articles |-> <<>>, pc |-> "idle", i |-> 1, caught |-> <<>>]
NoBatch == [articles |-> <<>>, simplify |-> TRUE, pc |-> "idle", i |-> 1,
            call |-> NoArticleCall, results |-> <<>>, calls |-> <<>>]

\* the components a specification does not exercise
SegIdle   == seg_last = NoCall
TagIdle   == tag_in = NoTagIn /\ tag_out = NoTagOut
BatchIdle == batch = NoBatch
PipeIdle  == pipe = <<>>
ArtIdle   == art = NoArt
LoadIdle  == load = NoLoad
EntIdle   == ent = NoEnt
WrapIdle  == wrap = NoWrap
SentIdle  == sent = NoSent
SimpIdle  == simp = NoSimp
StoreIdle == tagger = NoTagger

\* the lexicon and the dictionary once a TOCFLTagger is constructed
LoadedLexicon == load_jieba_words(BaseLexicon, TocflRows)
LoadedDict == load_word_dict(TocflRows)

(***************************************************************************)
(* SpecSeg: the Segmenter called by one client: any sequence of            *)
(* segment_text and add_words_to_dictionary calls.                         *)
(***************************************************************************)
\* the texts handed in: CJK text up to MaxTextLen, and text with whitespace
\* and punctuation one character shorter
SegTexts ==
    SeqsUpTo({"a", "b"}, MaxTextLen)
        \cup SeqsUpTo({"a", "!", " ", "_"}, MaxTextLen - 1)
\* the custom vocabulary lists handed in
CustomWordLists ==
    {<<>>, <<<<"a", "b">>>>, <<<<"a", "a">>>>, <<<<"a", "b">>, <<"a", "a">>>>}

AddWordBudget(lex, words) ==
    lex.total + CustomFreq * Len(words) <= BaseLexicon.total + CustomFreq * MaxAddWord

SegInit ==
    /\ jieba_dt = BaseLexicon
    /\ hmm \in HMMModels
    /\ seg_last = NoCall
    /\ word_dict = <<>>
    /\ TagIdle /\ BatchIdle /\ PipeIdle /\ ArtIdle /\ LoadIdle /\ EntIdle /\ WrapIdle /\ SentIdle /\ SimpIdle /\ StoreIdle

SegmentText(text, custom_words) ==
    /\ AddWordBudget(jieba_dt, custom_words)
    /\ LET r == segment_text(jieba_dt, hmm, text, custom_words)
       IN  /\ jieba_dt' = r.lex
           /\ seg_last' = [called |-> TRUE, text |-> text,
                           custom |-> custom_words, words |-> r.words]
    /\ UNCHANGED <<taggerVars, simpVars, sentVars, wrapVars, entVars, loadVars, artVars, hmm, tagVars, batchVars, pipeVars>>

AddWordsToDictionary(words) ==
    /\ words # <<>>
    /\ AddWordBudget(jieba_dt, words)
    /\ jieba_dt' = add_words_to_dictionary(jieba_dt, words)
    /\ UNCHANGED <<taggerVars, simpVars, sentVars, wrapVars, entVars, loadVars, artVars, hmm, segVars, tagVars, batchVars, pipeVars>>

SegNext ==
    \/ \E text \in SegTexts, cw \in CustomWordLists : SegmentText(text, cw)
    \/ \E cw \in CustomWordLists : AddWordsToDictionary(cw)

SpecSeg == SegInit /\ [][SegNext]_vars

(***************************************************************************)
(* SpecTag: calls of the tagger on a token list, the fallback classifier   *)
(* replying any of ClassifyReplies on each call.                           *)
(***************************************************************************)
\* longest token list handed to the tagger
MaxTokens == 2

\* "b" and "c" are the two forms of a dictionary row, the others are unknown
TagWords == {<<"a">>, <<"b">>, <<"c">>, <<"a", "b">>}
\* the words and the levels of the fallback classifier's replies: a word of
\* the dictionary and a level outside the tiers among them
ReplyWords == {<<"a">>, <<"b">>}
ReplyLevels == {"B1", "Z9"}
\* replies that are a JSON array: empty, of a word of two characters, of a
\* word of one, of a word with a level, of a dictionary word with two levels
ListReplies ==
    {[kind |-> "list", items |-> items] :
        items \in {<<>>,
                   <<[t |-> "str", s |-> <<"a", "b">>]>>,
                   <<[t |-> "str", s |-> <<"a">>]>>,
                   <<[t |-> "list", s |-> <<<<"a">>, "B1">>]>>,
                   <<[t |-> "list", s |-> <<<<"b">>, "B1">>],
                     [t |-> "list", s |-> <<<<"b">>, "Z9">>]>>}}
ClassifyReplies ==
    {LLMNone}
    \cup {[kind |-> "dict", d |-> d] :
              d \in UNION {[S -> ReplyLevels] : S \in SUBSET ReplyWords}}
    \cup ListReplies

TagInit ==
    /\ jieba_dt = LoadedLexicon
    /\ hmm = {}
    /\ word_dict = LoadedDict
    /\ tag_in \in [words : SeqsUpTo(TagWords, MaxTokens), reply : {LLMNone}]
    /\ tag_out = NoTagOut
    /\ SegIdle /\ BatchIdle /\ PipeIdle /\ ArtIdle /\ LoadIdle /\ EntIdle /\ WrapIdle /\ SentIdle /\ SimpIdle /\ StoreIdle

\* get_word_level_map(words)
GetWordLevelMap(reply) ==
    /\ LET r == get_word_level_map(word_dict, tag_in.words, reply)
       IN  tag_out' = [NoTagOut EXCEPT !.op = "get_word_level_map",
                                       !.prev = tag_out.op,
                                       !.raised = r.raised, !.map = r.map]
    /\ tag_in' = [tag_in EXCEPT !.reply = reply]
    /\ word_dict' = word_dict
    /\ UNCHANGED <<taggerVars, simpVars, sentVars, wrapVars, entVars, loadVars, artVars, jiebaVars, segVars, batchVars, pipeVars>>

\* categorize_words(words)
CategorizeWords(reply) ==
    /\ LET r == categorize_words(word_dict, tag_in.words, reply)
       IN  tag_out' = [NoTagOut EXCEPT !.op = "categorize_words",
                                       !.prev = tag_out.op,
                                       !.raised = r.raised, !.groups = r.groups]
    /\ tag_in' = [tag_in EXCEPT !.reply = reply]
    /\ word_dict' = word_dict
    /\ UNCHANGED <<taggerVars, simpVars, sentVars, wrapVars, entVars, loadVars, artVars, jiebaVars, segVars, batchVars, pipeVars>>

\* classify_unknown_words(unknown_words), of the words' unknown ones
ClassifyUnknownWords(reply) ==
    /\ tag_out' = [NoTagOut EXCEPT
                     !.op = "classify_unknown_words",
                     !.prev = tag_out.op,
                     !.classifications =
                         classify_unknown_words(
                             unknown_words_of(word_dict, tag_in.words), reply)]
    /\ tag_in' = [tag_in EXCEPT !.reply = reply]
    /\ word_dict' = word_dict
    /\ UNCHANGED <<taggerVars, simpVars, sentVars, wrapVars, entVars, loadVars, artVars, jiebaVars, segVars, batchVars, pipeVars>>

\* get_word_info(word), of one of the words
TagGetWordInfo(word) ==
    /\ tag_out' = [NoTagOut EXCEPT !.op = "get_word_info",
                                   !.prev = tag_out.op,
                                   !.word = word,
                                   !.info = get_word_info(word_dict, word)]
    /\ word_dict' = word_dict
    /\ UNCHANGED <<taggerVars, simpVars, sentVars, wrapVars, entVars, loadVars, artVars, jiebaVars, segVars, tag_in, batchVars, pipeVars>>

TagNext ==
    \/ \E reply \in ClassifyReplies :
           \/ GetWordLevelMap(reply)
           \/ CategorizeWords(reply)
           \/ ClassifyUnknownWords(reply)
    \/ \E word \in Range(tag_in.words) : TagGetWordInfo(word)

SpecTag == TagInit /\ [][TagNext]_vars

(***************************************************************************)
(* SpecStore: one tagger, its dictionary loaded, and a caller that makes   *)
(* up to MaxCalls calls of its four methods and keeps every object a call  *)
(* returned.  Each call runs statement by statement on the objects.        *)
(***************************************************************************)
MaxCalls == 3

StoreWordLists == {<<<<"a">>, <<"b">>>>, <<<<"b">>>>}

StoreReplies ==
    {LLMNone,
     [kind |-> "dict", d |-> (<<"a">> :> "B1") @@ (<<"b">> :> "B1")],
     [kind |-> "list", items |-> <<[t |-> "list", s |-> <<<<"a">>, "B1">>]>>]}

\* the heap a call starts on: self.word_dict, then the objects returned
Heap == <<word_dict>> \o tagger.heap

CallEntry == [heap |-> Heap, frame |-> ("self.word_dict" :> 1)]

\* the call is over: the objects it left, and its record
Returned(op, words, reply, r) ==
    /\ word_dict' = Head(r.heap)
    /\ tagger' = [heap |-> Tail(r.heap),
                  calls |-> Append(tagger.calls,
                                   [op |-> op, words |-> words, reply |-> reply,
                                    raised |-> r.raised, ref |-> r.ref])]
    /\ UNCHANGED <<tag_in, tag_out, simpVars, sentVars, wrapVars, entVars, loadVars, artVars, jiebaVars, segVars, batchVars, pipeVars>>

StoreInit ==
    /\ jieba_dt = LoadedLexicon
    /\ hmm = {}
    /\ word_dict = LoadedDict
    /\ tagger = NoTagger
    /\ SegIdle /\ TagIdle /\ BatchIdle /\ PipeIdle /\ ArtIdle /\ LoadIdle /\ EntIdle /\ WrapIdle /\ SentIdle /\ SimpIdle

\* get_word_level_map(words)
CallGetWordLevelMap(words, reply) ==
    /\ Len(tagger.calls) < MaxCalls
    /\ Returned("get_word_level_map", words, reply,
                get_word_level_map_call(CallEntry, words, reply))

\* categorize_words(words)
CallCategorizeWords(words, reply) ==
    /\ Len(tagger.calls) < MaxCalls
    /\ Returned("categorize_words", words, reply,
                categorize_words_call(CallEntry, words, reply))

\* classify_unknown_words(unknown_words), of the words' unknown ones
CallClassifyUnknownWords(words, reply) ==
    /\ Len(tagger.calls) < MaxCalls
    /\ Returned("classify_unknown_words", words, reply,
                classify_unknown_words_call(
                    CallEntry, unknown_words_of(word_dict, words), reply))

\* get_word_info(word)
CallGetWordInfo(word) ==
    /\ Len(tagger.calls) < MaxCalls
    /\ Returned("get_word_info", <<word>>, LLMNone,
                get_word_info_call(CallEntry, word))

StoreNext ==
    \/ \E words \in StoreWordLists, reply \in StoreReplies :
           \/ CallGetWordLevelMap(words, reply)
           \/ CallCategorizeWords(words, reply)
           \/ CallClassifyUnknownWords(words, reply)
    \/ \E word \in {<<"a">>, <<"b">>} : CallGetWordInfo(word)

SpecStore == StoreInit /\ [][StoreNext]_vars

(***************************************************************************)
(* SpecBatch: one ArticleProcessor.process_batch call.  Each step of the   *)
(* process_article call of a turn is a step; an external call replies any  *)
(* of the replies below when its step is taken.                            *)
(***************************************************************************)
\* longest list of articles handed to process_batch
MaxBatch == 2

\* "ab" has the unknown word "a"; "b" has dictionary words only
ArticleAB ==
    [article_id |-> "AB",
     mandarin_content |-> <<"a", "b">>, english_content |-> <<"e">>,
     mandarin_section_indices |-> <<<<0, 2>>>>,
     english_section_indices |-> <<<<0, 1>>>>,
     graded_content |-> <<>>]
ArticleB ==
    [article_id |-> "B",
     mandarin_content |-> <<"b">>, english_content |-> <<"e">>,
     mandarin_section_indices |-> <<<<0, 1>>>>,
     english_section_indices |-> <<<<0, 1>>>>,
     graded_content |-> <<[key |-> "BEGINNER", value |-> <<"a", "b">>]>>]
BatchArticles == {ArticleAB, ArticleB}

\* what llm_client.extract_entities returns: None, a JSON object, an array
\* of entities
EntityReplies ==
    {LLMNone,
     [kind |-> "dict", d |-> ("entities" :> <<>>)],
     [kind |-> "list",
      items |-> <<[word |-> <<"a", "b">>, type |-> "person", english |-> <<"G">>],
                  [word |-> <<>>, type |-> "place", english |-> <<"S">>]>>]}
\* what llm_client.classify_words returns
LevelReplies ==
    {LLMNone, [kind |-> "dict", d |-> (<<"a">> :> "B1")], [kind |-> "dict", d |-> <<>>],
     [kind |-> "dict", d |-> (<<"a">> :> "\"")],
     [kind |-> "list", items |-> <<[t |-> "list", s |-> <<<<"a">>, "B1">>]>>]}
\* what the requests of simplify_to_multiple_levels return
NoSimplifyReply ==
    [multi |-> LLMNone, each |-> [level \in {"A2", "B1"} |-> NoText]]
SimplifyReplies ==
    {NoSimplifyReply,
     [multi |-> [kind |-> "dict", d |-> ("A2" :> <<"b">>)],
      each  |-> [level \in {"A2", "B1"} |-> NoText]]}
\* in a batch the simplification service may also raise
BatchSimplifyReplies ==
    SimplifyReplies \cup {[NoSimplifyReply EXCEPT !.multi = LLMRaises]}

BatchInit ==
    /\ jieba_dt = LoadedLexicon
    /\ hmm = {}
    /\ word_dict = LoadedDict
    /\ \E articles \in SeqsUpTo(BatchArticles, MaxBatch), simplify \in BOOLEAN :
           batch = [NoBatch EXCEPT !.articles = articles, !.simplify = simplify,
                                   !.pc = "loop"]
    /\ SegIdle /\ TagIdle /\ PipeIdle /\ ArtIdle /\ LoadIdle /\ EntIdle /\ WrapIdle /\ SentIdle /\ SimpIdle /\ StoreIdle

\* process_batch without its try/except: the exception of process_article
\* leaves the loop
process_batch_turn_uncaught(b, call) ==
    [b EXCEPT !.pc = IF call.pc = "raised" THEN "raised" ELSE "loop",
              !.i = b.i + 1,
              !.call = NoArticleCall,
              !.results = IF call.pc = "raised" THEN @
                          ELSE Append(@, process_article_result(call))]

\* the end of one turn of the loop of process_batch: the result of the
\* process_article call appended, or its exception caught
process_batch_turn(b, call) ==
    [b EXCEPT !.pc = "loop",
              !.i = b.i + 1,
              !.call = NoArticleCall,
              !.results = IF call.pc = "raised" THEN @
                          ELSE Append(@, process_article_result(call))]

\* process_batch after a step of the process_article call of its turn: the
\* article is the caller's object, a write to it shows at once; the turn
\* ends when the call has raised or returned.  calls keeps the calls ended
process_batch_step(b, call) ==
    LET written == [b EXCEPT !.articles[b.i] = call.article]
    IN  IF call.pc \in {"raised", "done"}
        THEN [process_batch_turn(written, call) EXCEPT !.calls = Append(@, call)]
        ELSE [written EXCEPT !.pc = "call", !.call = call]

\* a turn of the loop begins: process_article(article, simplify), step 1
BatchExtract(reply) ==
    /\ batch.pc = "loop"
    /\ batch.i <= Len(batch.articles)
    /\ batch' = process_batch_step(
                    batch,
                    process_article_extract(
                        process_article_call(batch.articles[batch.i], batch.simplify),
                        reply))
    /\ UNCHANGED <<taggerVars, simpVars, sentVars, wrapVars, entVars, loadVars, artVars, jiebaVars, segVars, tagVars, pipeVars>>

BatchSegment ==
    /\ batch.pc = "call" /\ batch.call.pc = "segment"
    /\ LET r == process_article_segment(jieba_dt, hmm, batch.call)
       IN  /\ batch' = process_batch_step(batch, r.call)
           /\ jieba_dt' = r.lex
    /\ UNCHANGED <<taggerVars, simpVars, sentVars, wrapVars, entVars, loadVars, artVars, hmm, segVars, tagVars, pipeVars>>

BatchLevels(reply) ==
    /\ batch.pc = "call" /\ batch.call.pc = "levels"
    /\ batch' = process_batch_step(batch,
                                   process_article_levels(word_dict, batch.call, reply))
    /\ UNCHANGED <<taggerVars, simpVars, sentVars, wrapVars, entVars, loadVars, artVars, jiebaVars, segVars, tagVars, pipeVars>>

BatchGroups(reply) ==
    /\ batch.pc = "call" /\ batch.call.pc = "groups"
    /\ batch' = process_batch_step(batch,
                                   process_article_groups(word_dict, batch.call, reply))
    /\ UNCHANGED <<taggerVars, simpVars, sentVars, wrapVars, entVars, loadVars, artVars, jiebaVars, segVars, tagVars, pipeVars>>

BatchSimplify(reply) ==
    /\ batch.pc = "call" /\ batch.call.pc = "simplify"
    /\ batch' = process_batch_step(batch, process_article_simplify(batch.call, reply))
    /\ UNCHANGED <<taggerVars, simpVars, sentVars, wrapVars, entVars, loadVars, artVars, jiebaVars, segVars, tagVars, pipeVars>>

BatchWrap ==
    /\ batch.pc = "call" /\ batch.call.pc = "wrap"
    /\ batch' = process_batch_step(batch, process_article_wrap(batch.call))
    /\ UNCHANGED <<taggerVars, simpVars, sentVars, wrapVars, entVars, loadVars, artVars, jiebaVars, segVars, tagVars, pipeVars>>

BatchReturn ==
    /\ batch.pc = "loop"
    /\ batch.i > Len(batch.articles)
    /\ batch' = [batch EXCEPT !.pc = "returned"]
    /\ UNCHANGED <<taggerVars, simpVars, sentVars, wrapVars, entVars, loadVars, artVars, jiebaVars, segVars, tagVars, pipeVars>>

BatchNext ==
    \/ \E reply \in EntityReplies : BatchExtract(reply)
    \/ BatchSegment
    \/ \E reply \in LevelReplies : BatchLevels(reply)
    \/ \E reply \in LevelReplies : BatchGroups(reply)
    \/ \E reply \in BatchSimplifyReplies : BatchSimplify(reply)
    \/ BatchWrap
    \/ BatchReturn

SpecBatch == BatchInit /\ [][BatchNext]_vars

(***************************************************************************)
(* SpecPipe: two pipeline instances in one process, each running           *)
(* process_article on its own article, their steps interleaved.  Both      *)
(* ArticleProcessors are constructed; each external call replies when its  *)
(* step is taken.                                                          *)
(***************************************************************************)
Pipelines == {"A", "B"}

\* the lexicon once both ArticleProcessors are constructed
PipeLexicon == load_jieba_words(LoadedLexicon, TocflRows)

ArticleOf(p) == IF p = "A" THEN ArticleAB ELSE ArticleB

PipeStart(article) == process_article_call(article, TRUE)

PipeInit ==
    /\ jieba_dt = PipeLexicon
    /\ hmm \in {{}, Han \X Han}
    /\ word_dict = LoadedDict
    /\ pipe = [p \in Pipelines |-> PipeStart(ArticleOf(p))]
    /\ SegIdle /\ TagIdle /\ BatchIdle /\ ArtIdle /\ LoadIdle /\ EntIdle /\ WrapIdle /\ SentIdle /\ SimpIdle /\ StoreIdle

\* 1. entities = self.entity_extractor.extract_entities(article)
PipeExtract(p, reply) ==
    /\ pipe[p].pc = "extract"
    /\ pipe' = [pipe EXCEPT ![p] = process_article_extract(@, reply)]
    /\ UNCHANGED <<taggerVars, simpVars, sentVars, wrapVars, entVars, loadVars, artVars, jiebaVars, segVars, tagVars, batchVars>>

\* 2., 3. segmented_versions = self.segmenter.segment_article(article,
\*        custom_words=get_all_entities(entities))
PipeSegment(p) ==
    /\ pipe[p].pc = "segment"
    /\ LET r == process_article_segment(jieba_dt, hmm, pipe[p])
       IN  /\ pipe' = [pipe EXCEPT ![p] = r.call]
           /\ jieba_dt' = r.lex
    /\ UNCHANGED <<taggerVars, simpVars, sentVars, wrapVars, entVars, loadVars, artVars, hmm, segVars, tagVars, batchVars>>

\* 4. word_level_map = self.tocfl_tagger.get_word_level_map(words)
PipeLevels(p, reply) ==
    /\ pipe[p].pc = "levels"
    /\ pipe' = [pipe EXCEPT ![p] = process_article_levels(word_dict, @, reply)]
    /\ UNCHANGED <<taggerVars, simpVars, sentVars, wrapVars, entVars, loadVars, artVars, jiebaVars, segVars, tagVars, batchVars>>

\* 5. word_levels = self.tocfl_tagger.categorize_words(words)
PipeGroups(p, reply) ==
    /\ pipe[p].pc = "groups"
    /\ pipe' = [pipe EXCEPT ![p] = process_article_groups(word_dict, @, reply)]
    /\ UNCHANGED <<taggerVars, simpVars, sentVars, wrapVars, entVars, loadVars, artVars, jiebaVars, segVars, tagVars, batchVars>>

\* 6. self.article_simplifier.simplify_article(article), simplify being True,
\*    its default
PipeSimplify(p, reply) ==
    /\ pipe[p].pc = "simplify"
    /\ pipe' = [pipe EXCEPT ![p] = process_article_simplify(@, reply)]
    /\ UNCHANGED <<taggerVars, simpVars, sentVars, wrapVars, entVars, loadVars, artVars, jiebaVars, segVars, tagVars, batchVars>>

\* 7. html_versions: the lookup of process_text raises
PipeWrap(p) ==
    /\ pipe[p].pc = "wrap"
    /\ pipe' = [pipe EXCEPT ![p] = process_article_wrap(@)]
    /\ UNCHANGED <<taggerVars, simpVars, sentVars, wrapVars, entVars, loadVars, artVars, jiebaVars, segVars, tagVars, batchVars>>

PipeNext ==
    \E p \in Pipelines :
        \/ \E reply \in EntityReplies : PipeExtract(p, reply)
        \/ PipeSegment(p)
        \/ \E reply \in LevelReplies : PipeLevels(p, reply)
        \/ \E reply \in LevelReplies : PipeGroups(p, reply)
        \/ \E reply \in SimplifyReplies : PipeSimplify(p, reply)
        \/ PipeWrap(p)

SpecPipe == PipeInit /\ [][PipeNext]_vars

(***************************************************************************)
(* SpecArt: one article object.  create_article_from_raw makes an Article  *)
(* of article.py; Article.from_dict and the alignment of paired paragraph  *)
(* lists make an Article of article/article.py.  The object is then read   *)
(* with get_section_content and given graded versions; the sections of an  *)
(* Article of article.py are given graded versions one by one.             *)
(***************************************************************************)
MaxParagraphs == 2
MaxSections == 2

MandarinParagraphs == {<<"a">>, <<"b">>, <<" ", "a">>}
EnglishParagraphs == {<<"e">>, <<"e", " ">>}
RawData ==
    [mandarin_paragraphs : SeqsUpTo(MandarinParagraphs, MaxParagraphs),
     english_paragraphs  : SeqsUpTo(EnglishParagraphs, MaxParagraphs)]

\* stored dictionaries: any offsets may be in them
OffsetPairs == {<<0, 1>>, <<1, 2>>, <<1, 0>>, <<0, 9>>}
DictData ==
    [article_id : {"D"},
     mandarin_content : {<<"a", "b">>},
     english_content : {<<"e">>},
     mandarin_section_indices : SeqsUpTo(OffsetPairs, MaxSections),
     english_section_indices : SeqsUpTo({<<0, 1>>}, MaxSections),
     graded_content : {<<>>}]

\* stored dictionaries of article.py: sections with and without graded texts
StoredSections ==
    {[mandarin |-> <<"a">>, english |-> <<"e">>, graded |-> <<>>],
     [mandarin |-> <<"b">>, english |-> <<"e">>,
      graded |-> <<[key |-> "A1", value |-> <<"b">>]>>]}
SectionedDictData ==
    [article_id : {"D"}, sections : SeqsUpTo(StoredSections, MaxSections)]

\* the add_graded_version calls made on the sections of an Article of
\* article.py: index counts from 0, the levels are those the grading
\* request of processing_articles.py answers with
SectionWrites ==
    {[index |-> 0, level |-> "A1", text |-> <<"a">>],
     [index |-> 1, level |-> "A1", text |-> <<"a">>]}

\* what the grading request of processing_articles.py answers
GradedVersions == {<<>>, <<[key |-> "A1", value |-> <<"b">>]>>}

GradedLevels == {"BEGINNER", "INTERMEDIATE"}
GradedTexts == {<<"a">>, <<"b", "\n", "\n", "a">>}

\* the simplifier's replies: one paragraph, two paragraphs, one tier only,
\* and the call raising
ArtSimplifyReplies ==
    {NoSimplifyReply,
     [multi |-> LLMRaises, each |-> [level \in {"A2", "B1"} |-> NoText]],
     [multi |-> [kind |-> "dict",
                 d |-> ("A2" :> <<"a">>) @@ ("B1" :> <<"b", "\n", "\n", "a">>)],
      each  |-> [level \in {"A2", "B1"} |-> NoText]],
     [multi |-> LLMNone,
      each  |-> [level \in {"A2", "B1"} |->
                   IF level = "B1" THEN Some(<<"b">>) ELSE NoText]]}

ArtInit ==
    /\ jieba_dt = BaseLexicon
    /\ hmm = {}
    /\ word_dict = <<>>
    /\ art = NoArt
    /\ SegIdle /\ TagIdle /\ BatchIdle /\ PipeIdle /\ LoadIdle /\ EntIdle /\ WrapIdle /\ SentIdle /\ SimpIdle /\ StoreIdle

\* the object is an Article of article.py
IsSectioned == art.made \in {"create_article_from_raw", "sectioned_from_dict"}
\* there is an object to call
ArticleMade == IsSectioned \/ art.made \in {"from_dict", "align"}

CreateArticleFromRaw(raw_data) ==
    /\ art.made = "none"
    /\ LET r == create_article_from_raw(raw_data)
       IN  art' = [art EXCEPT !.made = "create_article_from_raw",
                              !.raw = raw_data,
                              !.raised = r.raised,
                              !.sectioned = r.article]
    /\ UNCHANGED <<taggerVars, simpVars, sentVars, wrapVars, entVars, loadVars, jiebaVars, segVars, tagVars, batchVars, pipeVars>>

\* the article of article/article.py made from paired paragraph lists
AlignSections(raw_data) ==
    /\ art.made = "none"
    /\ LET r == aligned_article("R", raw_data.mandarin_paragraphs,
                                raw_data.english_paragraphs)
       IN  art' = [art EXCEPT !.made = IF r.raised THEN "align failed" ELSE "align",
                              !.raw = raw_data,
                              !.raised = r.raised,
                              !.error = IF r.raised THEN "SectionCountMismatch" ELSE "",
                              !.article = r.article]
    /\ UNCHANGED <<taggerVars, simpVars, sentVars, wrapVars, entVars, loadVars, jiebaVars, segVars, tagVars, batchVars, pipeVars>>

FromDict(data) ==
    /\ art.made = "none"
    /\ art' = [art EXCEPT !.made = "from_dict", !.article = from_dict(data)]
    /\ UNCHANGED <<taggerVars, simpVars, sentVars, wrapVars, entVars, loadVars, jiebaVars, segVars, tagVars, batchVars, pipeVars>>

\* Article.from_dict(data) of article.py
SectionedFromDict(data) ==
    /\ art.made = "none"
    /\ art' = [art EXCEPT !.made = "sectioned_from_dict",
                           !.sectioned = sectioned_from_dict(data)]
    /\ UNCHANGED <<taggerVars, simpVars, sentVars, wrapVars, entVars, loadVars, jiebaVars, segVars, tagVars, batchVars, pipeVars>>

\* article.sections[index].add_graded_version(level, text) on an Article of
\* article.py, index counting from 0
SectionAddGradedVersion(index, level, text) ==
    /\ IsSectioned
    /\ index < Len(art.sectioned.sections)
    /\ art' = [art EXCEPT !.op = "section.add_graded_version",
                           !.sectioned.sections[index + 1] =
                               section_add_graded_version(@, level, text),
                           !.index = index, !.raised = FALSE, !.error = "",
                           !.mandarin = <<>>, !.english = <<>>, !.reply = <<>>,
                           !.level = level, !.content = NoText]
    /\ UNCHANGED <<taggerVars, simpVars, sentVars, wrapVars, entVars, loadVars, jiebaVars, segVars, tagVars, batchVars, pipeVars>>

\* article.get_graded_content(level) on an Article of article.py
SectionedGetGradedContent(level) ==
    /\ IsSectioned
    /\ art' = [art EXCEPT !.op = "get_graded_content",
                           !.index = 0, !.raised = FALSE, !.error = "",
                           !.mandarin = <<>>, !.english = <<>>, !.reply = <<>>,
                           !.level = level,
                           !.content = sectioned_get_graded_content(art.sectioned, level)]
    /\ UNCHANGED <<taggerVars, simpVars, sentVars, wrapVars, entVars, loadVars, jiebaVars, segVars, tagVars, batchVars, pipeVars>>

\* ArticleProcessor.process_article(article) of processing_articles.py on an
\* Article of article.py
ProcessSections(graded_versions) ==
    /\ IsSectioned
    /\ art' = [art EXCEPT !.op = "process_article",
                           !.sectioned = processing_articles_process_article(
                                             @, graded_versions),
                           !.index = 0, !.raised = FALSE, !.error = "",
                           !.mandarin = <<>>, !.english = <<>>,
                           !.reply = <<graded_versions>>,
                           !.level = "", !.content = NoText]
    /\ UNCHANGED <<taggerVars, simpVars, sentVars, wrapVars, entVars, loadVars, jiebaVars, segVars, tagVars, batchVars, pipeVars>>

\* article.get_section_content(index); on an Article of article.py the
\* attribute lookup raises
GetSectionContent(index) ==
    /\ ArticleMade
    /\ LET missing == IsSectioned /\ "get_section_content" \notin SectionedArticleAttributes
           r == IF missing THEN [raised |-> TRUE, mandarin |-> <<>>, english |-> <<>>]
                ELSE get_section_content(art.article, index)
       IN  art' = [art EXCEPT !.op = "get_section_content",
                              !.before = art.article,
                              !.index = index,
                              !.raised = r.raised,
                              !.error = IF missing THEN "AttributeError"
                                        ELSE IF r.raised THEN "IndexError" ELSE "",
                              !.mandarin = r.mandarin,
                              !.english = r.english,
                              !.reply = <<>>, !.level = "", !.content = NoText]
    /\ UNCHANGED <<taggerVars, simpVars, sentVars, wrapVars, entVars, loadVars, jiebaVars, segVars, tagVars, batchVars, pipeVars>>

\* article.add_graded_version(level, content); on an Article of article.py
\* the attribute lookup raises
AddGradedVersion(level, content) ==
    /\ ArticleMade
    /\ LET missing == IsSectioned /\ "add_graded_version" \notin SectionedArticleAttributes
       IN  art' = [art EXCEPT !.op = "add_graded_version",
                              !.before = art.article,
                              !.article = IF missing THEN @
                                          ELSE add_graded_version(@, level, content),
                              !.index = 0, !.raised = missing,
                              !.error = IF missing THEN "AttributeError" ELSE "",
                              !.mandarin = <<>>, !.english = <<>>, !.reply = <<>>,
                              !.level = level, !.content = NoText]
    /\ UNCHANGED <<taggerVars, simpVars, sentVars, wrapVars, entVars, loadVars, jiebaVars, segVars, tagVars, batchVars, pipeVars>>

\* simplifier.simplify_article(article)
SimplifyArticle(reply) ==
    /\ ArticleMade
    /\ LET raises == IF IsSectioned
                     THEN simplify_sectioned_article_raises(art.sectioned, reply)
                     ELSE simplify_article_raises(reply)
       IN  art' = [art EXCEPT !.op = "simplify_article",
                              !.before = art.article,
                              !.article = IF raises THEN @
                                          ELSE IF IsSectioned THEN @
                                          ELSE simplify_article(@, reply),
                              !.index = 0, !.raised = raises,
                              !.error = IF simplify_article_raises(reply) THEN "Exception"
                                        ELSE IF raises THEN "AttributeError" ELSE "",
                              !.mandarin = <<>>, !.english = <<>>,
                              !.reply = <<reply>>, !.level = "", !.content = NoText]
    /\ UNCHANGED <<taggerVars, simpVars, sentVars, wrapVars, entVars, loadVars, jiebaVars, segVars, tagVars, batchVars, pipeVars>>

ArtNext ==
    \/ \E raw_data \in RawData : CreateArticleFromRaw(raw_data)
    \/ \E raw_data \in RawData : AlignSections(raw_data)
    \/ \E data \in DictData : FromDict(data)
    \/ \E index \in 0..MaxSections : GetSectionContent(index)
    \/ \E level \in GradedLevels, content \in GradedTexts :
           AddGradedVersion(level, content)
    \/ \E reply \in ArtSimplifyReplies : SimplifyArticle(reply)
    \/ \E data \in SectionedDictData : SectionedFromDict(data)
    \/ \E call \in SectionWrites :
           SectionAddGradedVersion(call.index, call.level, call.text)
    \/ \E level \in {"native", "A1"} : SectionedGetGradedContent(level)
    \/ \E graded_versions \in GradedVersions : ProcessSections(graded_versions)

SpecArt == ArtInit /\ [][ArtNext]_vars

(***************************************************************************)
(* SpecLoad: a TOCFLTagger constructed from a csv of any rows, then        *)
(* looked up with get_word_info.                                           *)
(***************************************************************************)
MaxRows == 2

\* rows of a csv: forms occurring in several rows, empty cells
CsvRows ==
    [traditional : {<<"b">>, NaNWord},
     simplified  : {<<"c">>, <<"a">>, NaNWord},
     cefr_level  : {"A1", "B1", NaNLevel}]
LookupWords == {<<"a">>, <<"b">>, <<"c">>}

LoadInit ==
    /\ jieba_dt = BaseLexicon
    /\ hmm = {}
    /\ word_dict = <<>>
    /\ load = NoLoad
    /\ SegIdle /\ TagIdle /\ BatchIdle /\ PipeIdle /\ ArtIdle /\ EntIdle /\ WrapIdle /\ SentIdle /\ SimpIdle /\ StoreIdle

\* TOCFLTagger(tocfl_csv_path)
LoadTocflDictionary(rows) ==
    /\ ~load.called
    /\ LET r == load_tocfl_dictionary(jieba_dt, rows)
       IN  /\ load' = [load EXCEPT !.called = TRUE, !.rows = rows,
                                   !.raised = r.raised]
           /\ word_dict' = r.word_dict
           /\ jieba_dt' = r.lex
    /\ UNCHANGED <<taggerVars, simpVars, sentVars, wrapVars, entVars, hmm, segVars, tag_in, tag_out, batchVars, pipeVars, artVars>>

GetWordInfo(word) ==
    /\ load.called /\ ~load.raised
    /\ load' = [load EXCEPT !.word = word, !.info = get_word_info(word_dict, word)]
    /\ UNCHANGED <<taggerVars, simpVars, sentVars, wrapVars, entVars, jiebaVars, segVars, tagVars, batchVars, pipeVars, artVars>>

LoadNext ==
    \/ \E rows \in SeqsUpTo(CsvRows, MaxRows) : LoadTocflDictionary(rows)
    \/ \E word \in LookupWords : GetWordInfo(word)

SpecLoad == LoadInit /\ [][LoadNext]_vars

(***************************************************************************)
(* SpecEnt: one EntityExtractor call on a list of raw entries, the flat    *)
(* list of its table taken afterwards.                                     *)
(***************************************************************************)
\* longest list of raw entries the extraction service replies
MaxEntities == 2

EntityWords == {<<"a">>, <<"b">>}
EntityGlosses == {<<"G">>, <<"S">>}
\* the raw entries: a field left out is <<>> or ""
RawEntities ==
    [word    : EntityWords \cup {<<>>},
     type    : {"", "person", "place", "invalid_type"},
     english : EntityGlosses \cup {<<>>}]

EntInit ==
    /\ jieba_dt = BaseLexicon
    /\ hmm = {}
    /\ word_dict = <<>>
    /\ \E raw \in SeqsUpTo(RawEntities, MaxEntities) :
           ent = [NoEnt EXCEPT !.pc = "start", !.raw = raw]
    /\ SegIdle /\ TagIdle /\ BatchIdle /\ PipeIdle /\ ArtIdle /\ LoadIdle /\ WrapIdle /\ SentIdle /\ SimpIdle /\ StoreIdle

\* entities = extract_entities(article), the service replying ent.raw
ExtractEntities ==
    /\ ent.pc = "start"
    /\ LET r == extract_entities([kind |-> "list", items |-> ent.raw])
       IN  ent' = [ent EXCEPT !.pc = "extracted", !.raised = r.raised,
                              !.entities = r.entities]
    /\ UNCHANGED <<taggerVars, simpVars, sentVars, wrapVars, jiebaVars, segVars, tagVars, batchVars, pipeVars, artVars, loadVars>>

\* get_all_entities(entities)
GetAllEntities ==
    /\ ent.pc = "extracted" /\ ~ent.raised
    /\ ent' = [ent EXCEPT !.pc = "flat", !.all = get_all_entities(ent.entities)]
    /\ UNCHANGED <<taggerVars, simpVars, sentVars, wrapVars, jiebaVars, segVars, tagVars, batchVars, pipeVars, artVars, loadVars>>

EntNext == ExtractEntities \/ GetAllEntities

SpecEnt == EntInit /\ [][EntNext]_vars

(***************************************************************************)
(* SpecWrap: calls of HTMLWrapper, wrap_word on one word and               *)
(* process_article on an article and the token list of its text.           *)
(***************************************************************************)
\* longest word, definition and pinyin handed to wrap_word
MaxWordLen == 2

WrapChars == {"a", "<", ">", "&", "\"", "'"}
WrapTexts == SeqsUpTo(WrapChars, MaxWordLen)
\* definition and pinyin: None, or a text of at most one character
WrapOptions == {NoText} \cup {Some(text) : text \in SeqsUpTo(WrapChars, 1)}

\* the articles handed to process_article: without graded content, with one
\* graded version, with two
WrapArticles ==
    {Article("W", <<"a">>, <<"e">>, <<<<0, 1>>>>, <<<<0, 1>>>>, graded) :
        graded \in {<<>>,
                    <<[key |-> "BEGINNER", value |-> <<"b">>]>>,
                    <<[key |-> "BEGINNER", value |-> <<"a">>],
                      [key |-> "INTERMEDIATE", value |-> <<"b", "c">>]>>}}
\* the tokens of the list handed in
WrapTokens == {<<"a">>, <<"<">>}
\* the level maps: those get_word_level_map returns for a token list
WrapLevelMaps ==
    {r.map : r \in {m \in {get_word_level_map(LoadedDict, words, reply) :
                               words \in SeqsUpTo(WrapTokens, MaxTokens),
                               reply \in LevelReplies} : ~m.raised}}
WrapEntities ==
    {[NoEntities EXCEPT !.names = names, !.misc = misc] :
        names \in {<<>>, <<[key |-> <<"a">>, value |-> <<"G">>]>>},
        misc  \in {<<>>, <<[key |-> <<"a">>, value |-> <<"S">>]>>,
                   <<[key |-> <<"<">>, value |-> <<"&">>]>>}}
\* pinyin_dict: None, or a dict
WrapPinyinDicts == {<<>>, (<<"a">> :> <<"&">>)}

\* the calls made: wrap_word on one word, process_article on an article
WrapCalls ==
    {[NoWrap EXCEPT !.op = "call wrap_word", !.word = word, !.level = level,
                    !.definition = definition, !.pinyin = pinyin,
                    !.is_entity = is_entity] :
        word \in WrapTexts, level \in {"B1", "unknown"},
        definition \in WrapOptions, pinyin \in WrapOptions, is_entity \in BOOLEAN}
    \cup
    {[NoWrap EXCEPT !.op = "call process_article", !.article = article,
                    !.words = words, !.word_levels = word_levels,
                    !.entity_definitions = entity_definitions,
                    !.pinyin_dict = pinyin_dict] :
        article \in WrapArticles,
        words \in SeqsUpTo(WrapTokens, MaxTokens), word_levels \in WrapLevelMaps,
        entity_definitions \in WrapEntities, pinyin_dict \in WrapPinyinDicts}

WrapInit ==
    /\ jieba_dt = BaseLexicon
    /\ hmm = {}
    /\ word_dict = <<>>
    /\ wrap \in WrapCalls
    /\ SegIdle /\ TagIdle /\ BatchIdle /\ PipeIdle /\ ArtIdle /\ LoadIdle /\ EntIdle /\ SentIdle /\ SimpIdle /\ StoreIdle

\* wrap_word(word, level, definition, pinyin, is_entity)
WrapWord ==
    /\ wrap.op = "call wrap_word"
    /\ wrap' = [wrap EXCEPT
                  !.op = "wrap_word",
                  !.html = wrap_word(wrap.word, wrap.level, wrap.definition,
                                     wrap.pinyin, wrap.is_entity)]
    /\ UNCHANGED <<taggerVars, simpVars, sentVars, jiebaVars, segVars, tagVars, batchVars, pipeVars, artVars, loadVars, entVars>>

\* HTMLWrapper.process_article(article, words, word_levels,
\* entity_definitions, pinyin_dict)
WrapProcessArticle ==
    /\ wrap.op = "call process_article"
    /\ wrap' = [wrap EXCEPT
                  !.op = "process_article",
                  !.html_versions =
                      html_wrapper_process_article(
                          wrap.article, wrap.words, wrap.word_levels,
                          wrap.entity_definitions, wrap.pinyin_dict)]
    /\ UNCHANGED <<taggerVars, simpVars, sentVars, jiebaVars, segVars, tagVars, batchVars, pipeVars, artVars, loadVars, entVars>>

WrapNext == WrapWord \/ WrapProcessArticle

SpecWrap == WrapInit /\ [][WrapNext]_vars

(***************************************************************************)
(* SpecSent: one get_sentence_boundaries call on a text.                   *)
(***************************************************************************)
\* longest text handed to get_sentence_boundaries
MaxSentLen == 4

\* "!" is the ASCII mark, which the pattern does not have
SentChars == {"a", ".", "?", " ", "!"}

SentInit ==
    /\ jieba_dt = BaseLexicon
    /\ hmm = {}
    /\ word_dict = <<>>
    /\ \E text \in SeqsUpTo(SentChars, MaxSentLen) :
           sent = [NoSent EXCEPT !.pc = "start", !.text = text]
    /\ SegIdle /\ TagIdle /\ BatchIdle /\ PipeIdle /\ ArtIdle /\ LoadIdle /\ EntIdle /\ WrapIdle /\ SimpIdle /\ StoreIdle

GetSentenceBoundaries ==
    /\ sent.pc = "start"
    /\ sent' = [sent EXCEPT !.pc = "done",
                            !.boundaries = get_sentence_boundaries(sent.text)]
    /\ UNCHANGED <<taggerVars, simpVars, jiebaVars, segVars, tagVars, batchVars, pipeVars, artVars, loadVars, entVars, wrapVars>>

SentNext == GetSentenceBoundaries

SpecSent == SentInit /\ [][SentNext]_vars

(***************************************************************************)
(* SpecSimp: one ArticleSimplifier.process_article_batch call.  Each turn  *)
(* of its loop is a step: the request to the simplification service and    *)
(* the graded versions written to the article of the turn.                 *)
(***************************************************************************)
\* one turn of the loop of process_article_batch: simplify_article on the
\* article, its exception caught and printed; caught keeps, turn by turn,
\* whether there was one
process_article_batch_turn(s, reply) ==
    [s EXCEPT !.i = s.i + 1,
              !.articles[s.i] = IF simplify_article_raises(reply) THEN @
                                ELSE simplify_article(@, reply),
              !.caught = Append(@, simplify_article_raises(reply))]

SimpInit ==
    /\ jieba_dt = BaseLexicon
    /\ hmm = {}
    /\ word_dict = <<>>
    /\ \E articles \in SeqsUpTo(BatchArticles, MaxBatch) :
           simp = [NoSimp EXCEPT !.articles = articles, !.pc = "loop"]
    /\ SegIdle /\ TagIdle /\ BatchIdle /\ PipeIdle /\ ArtIdle /\ LoadIdle /\ EntIdle /\ WrapIdle /\ SentIdle /\ StoreIdle

SimpTurn(reply) ==
    /\ simp.pc = "loop"
    /\ simp.i <= Len(simp.articles)
    /\ simp' = process_article_batch_turn(simp, reply)
    /\ UNCHANGED <<taggerVars, sentVars, wrapVars, entVars, loadVars, artVars, jiebaVars, segVars, tagVars, batchVars, pipeVars>>

\* the loop is over: process_article_batch returns None
SimpReturn ==
    /\ simp.pc = "loop"
    /\ simp.i > Len(simp.articles)
    /\ simp' = [simp EXCEPT !.pc = "returned"]
    /\ UNCHANGED <<taggerVars, sentVars, wrapVars, entVars, loadVars, artVars, jiebaVars, segVars, tagVars, batchVars, pipeVars>>

SimpNext == (\E reply \in ArtSimplifyReplies : SimpTurn(reply)) \/ SimpReturn

SpecSimp == SimpInit /\ [][SimpNext]_vars

(***************************************************************************)
(* C1: custom vocabulary affects only the call it is passed to: a          *)
(* segment_text(t, None) call returns what it returns on the lexicon no    *)
(* custom word was ever added to.                                          *)
(***************************************************************************)
C1_CustomWordsScopedToCall ==
    (seg_last.called /\ seg_last.custom = <<>>)
        => seg_last.words = segment_text(BaseLexicon, hmm, seg_last.text, <<>>).words

(***************************************************************************)
(* C2: the tokens a pipeline instance produces for its article are the     *)
(* tokens it produces when it runs alone: its segmentation reads nothing   *)
(* the other instance wrote.                                               *)
(***************************************************************************)
TokensAlone(p) ==
    segment_article(PipeLexicon, hmm, ArticleOf(p),
                    get_all_entities(pipe[p].entities)).versions

C2_PipelinesShareOnlyTheDictionary ==
    \A p \in Pipelines :
        pipe[p].segmented_versions # <<>>
            => pipe[p].segmented_versions = TokensAlone(p)

(***************************************************************************)
(* C3: when the fallback classifier fails, get_word_level_map does not     *)
(* raise: every dictionary hit keeps its level and every word sent to the  *)
(* fallback is mapped to 'unknown'.                                        *)
(***************************************************************************)
FallbackFailed ==
    /\ tag_out.op = "get_word_level_map"
    /\ tag_in.reply.kind = "none"
    /\ unknown_words_of(word_dict, tag_in.words) # {}

C3_FallbackFailureMapsToUnknown ==
    FallbackFailed =>
        /\ ~tag_out.raised
        /\ DOMAIN tag_out.map = Range(tag_in.words)
        /\ \A w \in Range(tag_in.words) :
               tag_out.map[w] = IF w \in DOMAIN word_dict
                                THEN word_dict[w].level ELSE "unknown"

(***************************************************************************)
(* C4: when entity extraction fails (the request returns no array of       *)
(* entities) and every other external call replies well, process_article   *)
(* still returns, with the four entity categories empty and a 'native'     *)
(* markup: the failure is not raised out of it.                            *)
(***************************************************************************)
\* the call is over, its extraction request returned no array and no other
\* external call of it failed
EntityExtractionFailed(call) ==
    /\ call.entity_reply.kind # "list"
    /\ call.raised_at \notin {"levels", "groups", "simplify"}

C4_EntityFailureIsAbsorbed ==
    \A i \in 1..Len(batch.calls) :
        EntityExtractionFailed(batch.calls[i]) =>
            /\ batch.calls[i].pc = "done"
            /\ process_article_result(batch.calls[i]).entities = NoEntities
            /\ od_has(process_article_result(batch.calls[i]).html_versions,
                      "native")

(***************************************************************************)
(* C5: process_batch does not raise, processes every article, also after a *)
(* failing one, and returns the results of the articles that did not fail, *)
(* in input order.                                                         *)
(***************************************************************************)
RECURSIVE ResultsOfSucceeded(_)
ResultsOfSucceeded(calls) ==
    IF calls = <<>> THEN <<>>
    ELSE (IF Head(calls).pc = "raised" THEN <<>>
          ELSE <<process_article_result(Head(calls))>>)
         \o ResultsOfSucceeded(Tail(calls))

C5_BatchIsolatesFailures ==
    /\ batch.pc # "raised"
    /\ batch.pc = "returned" =>
           /\ Len(batch.calls) = Len(batch.articles)
           /\ batch.results = ResultsOfSucceeded(batch.calls)

\* a batch returned in which process_article raised at its first step for
\* one article and a later article was taken through the steps up to the
\* last, its graded version stored
C5_Witness ==
    /\ batch.pc = "returned"
    /\ \E i, j \in 1..Len(batch.calls) :
           /\ i < j
           /\ batch.calls[i].raised_at = "extract"
           /\ batch.calls[j].raised_at = "wrap"
           /\ batch.articles[j].graded_content # batch.calls[j].given.graded_content

(***************************************************************************)
(* C6: building an article from Mandarin and English paragraph lists of    *)
(* different lengths fails (section count mismatch); no article is made    *)
(* from the truncated pairing.                                             *)
(***************************************************************************)
C6_MismatchedListsAreRejected ==
    (/\ art.made = "create_article_from_raw" /\ art.op = "none"
     /\ Len(art.raw.mandarin_paragraphs) # Len(art.raw.english_paragraphs))
        => art.raised /\ art.sectioned = NoSectioned

(***************************************************************************)
(* C7: round trip: on the article aligned from equal-length paragraph lists,*)
(* get_section_content(i) returns exactly the i-th Mandarin and the i-th   *)
(* English paragraph, for every i below the number of paragraphs.          *)
(***************************************************************************)
C7_SectionRoundTrip ==
    (/\ art.made = "align"
     /\ Len(art.raw.mandarin_paragraphs) = Len(art.raw.english_paragraphs)
     /\ art.op = "get_section_content"
     /\ art.index < Len(art.raw.mandarin_paragraphs))
        => /\ ~art.raised
           /\ art.mandarin = art.raw.mandarin_paragraphs[art.index + 1]
           /\ art.english = art.raw.english_paragraphs[art.index + 1]

(***************************************************************************)
(* C8: every Article made by the constructor, by from_dict or by           *)
(* add_graded_version calls has offset lists of equal length whose spans   *)
(* are increasing, non-overlapping and inside the full text.               *)
(***************************************************************************)
OffsetsWellFormed(offsets, text) ==
    /\ \A i \in 1..Len(offsets) :
           0 <= offsets[i][1] /\ offsets[i][1] <= offsets[i][2]
                              /\ offsets[i][2] <= Len(text)
    /\ \A i \in 1..(Len(offsets) - 1) : offsets[i][2] <= offsets[i + 1][1]

OffsetInvariant(article) ==
    /\ Len(article.mandarin_section_indices) = Len(article.english_section_indices)
    /\ OffsetsWellFormed(article.mandarin_section_indices, article.mandarin_content)
    /\ OffsetsWellFormed(article.english_section_indices, article.english_content)

C8_OffsetInvariant ==
    art.made \in {"from_dict", "align"} => OffsetInvariant(art.article)

(***************************************************************************)
(* C9: get_section_content(index) raises IndexError when index is not      *)
(* below the length of both offset lists, leaving the article unchanged,   *)
(* and otherwise returns the slices of the two full texts at the index-th  *)
(* offset pairs.                                                           *)
(***************************************************************************)
C9_SectionContentIsTheSlices ==
    (art.op = "get_section_content" /\ ~IsSectioned) =>
        IF \/ art.index >= Len(art.before.mandarin_section_indices)
           \/ art.index >= Len(art.before.english_section_indices)
        THEN art.raised /\ art.article = art.before
        ELSE LET m == art.before.mandarin_section_indices[art.index + 1]
                 e == art.before.english_section_indices[art.index + 1]
             IN  /\ ~art.raised
                 /\ art.mandarin = py_slice(art.before.mandarin_content, m[1], m[2])
                 /\ art.english = py_slice(art.before.english_content, e[1], e[2])

(***************************************************************************)
(* C10: of the rewrites the simplification stage receives, one whose       *)
(* paragraph count (split on the double separator) differs from the        *)
(* article's is not stored in graded_content; every other tier received is *)
(* stored.                                                                 *)
(***************************************************************************)
\* len(text.split(separator))
RECURSIVE ParagraphCount(_)
ParagraphCount(text) ==
    IF Len(text) < Len(Separator) THEN 1
    ELSE IF SubSeq(text, 1, Len(Separator)) = Separator
         THEN 1 + ParagraphCount(Drop(text, Len(Separator)))
         ELSE ParagraphCount(Tail(text))

C10_MisalignedRewriteIsDropped ==
    (art.op = "simplify_article" /\ ~IsSectioned) =>
        LET received == simplify_to_multiple_levels(art.before.mandarin_content,
                                                    art.reply[1])
        IN  \A i \in 1..Len(level_mapping) :
                LET level == level_mapping[i].key
                    tier  == level_mapping[i].value
                IN  tier \in DOMAIN received =>
                        IF ParagraphCount(received[tier])
                               = ParagraphCount(art.before.mandarin_content)
                        THEN /\ od_has(art.article.graded_content, level)
                             /\ od_get(art.article.graded_content, level)
                                    = received[tier]
                        ELSE od_has(art.article.graded_content, level)
                                 => /\ od_has(art.before.graded_content, level)
                                    /\ od_get(art.article.graded_content, level)
                                         = od_get(art.before.graded_content, level)

(***************************************************************************)
(* C11: add_graded_version and simplify_article never remove a tier from   *)
(* graded_content, change only the entries of the tiers they are called    *)
(* for, and leave every other field of the article as it was.              *)
(***************************************************************************)
TierChanged(level) ==
    ~(/\ od_has(art.before.graded_content, level)
      /\ od_has(art.article.graded_content, level)
      /\ od_get(art.article.graded_content, level)
             = od_get(art.before.graded_content, level))

\* the tiers the last call was made for
TiersCalledFor ==
    IF art.op = "add_graded_version" THEN {art.level}
    ELSE LET received == simplify_to_multiple_levels(art.before.mandarin_content,
                                                     art.reply[1])
         IN  {level_mapping[i].key :
                  i \in {j \in 1..Len(level_mapping) :
                             level_mapping[j].value \in DOMAIN received}}

C11_GradedContentOnlyGrows ==
    (art.op \in {"add_graded_version", "simplify_article"} /\ ~IsSectioned) =>
        /\ [art.article EXCEPT !.graded_content = <<>>]
               = [art.before EXCEPT !.graded_content = <<>>]
        /\ \A i \in 1..Len(art.before.graded_content) :
               od_has(art.article.graded_content, art.before.graded_content[i].key)
        /\ \A level \in Range(od_keys(art.before.graded_content))
                            \cup Range(od_keys(art.article.graded_content)) :
               TierChanged(level) => level \in TiersCalledFor

\* a tier overwritten while another tier is present
C11_Witness ==
    /\ art.op \in {"add_graded_version", "simplify_article"} /\ ~IsSectioned
    /\ Len(art.before.graded_content) = 2
    /\ \E level \in TiersCalledFor :
           /\ od_has(art.before.graded_content, level)
           /\ TierChanged(level)

(***************************************************************************)
(* C12: after loading, for every row of the source, also when a written    *)
(* form occurs in several rows, looking up the row's first written form    *)
(* and looking up its second written form give the same level and the same *)
(* canonical form.                                                         *)
(***************************************************************************)
C12_BothFormsResolveAlike ==
    (load.called /\ ~load.raised) =>
        \A i \in 1..Len(load.rows) :
            get_word_info(word_dict, load.rows[i].traditional)
                = get_word_info(word_dict, load.rows[i].simplified)

(***************************************************************************)
(* C13: loading a source with a row that lacks a level or a written form   *)
(* fails, and no store is ever produced that has an entry without a level  *)
(* or without a canonical form.                                            *)
(***************************************************************************)
RowIsMalformed(row) ==
    \/ row.cefr_level = NaNLevel
    \/ row.traditional = NaNWord
    \/ row.simplified = NaNWord

C13_MalformedRowsAreRejected ==
    load.called =>
        /\ (\E i \in 1..Len(load.rows) : RowIsMalformed(load.rows[i]))
               => load.raised
        /\ \A w \in DOMAIN word_dict :
               word_dict[w].level # NaNLevel /\ word_dict[w].simplified # NaNWord

(***************************************************************************)
(* C14: no sequence of get_word_info, classify_unknown_words,              *)
(* categorize_words and get_word_level_map calls, whatever the fallback    *)
(* replies, changes word_dict; and the map a get_word_level_map call       *)
(* returned is an object of its own: not self.word_dict, not the object    *)
(* any other call returned, and, whatever calls came after it, still the   *)
(* map of the dictionary as loaded and this call's words and reply.        *)
(***************************************************************************)
C14_StoreIsNeverMutated ==
    /\ word_dict = LoadedDict
    /\ \A i \in 1..Len(tagger.calls) :
           LET call == tagger.calls[i]
           IN  (call.op = "get_word_level_map" /\ ~call.raised) =>
                   /\ call.ref \in 2..Len(Heap)
                   /\ \A j \in 1..Len(tagger.calls) :
                          j # i => tagger.calls[j].ref # call.ref
                   /\ Heap[call.ref] =
                          get_word_level_map(LoadedDict, call.words, call.reply).map

\* two get_word_level_map calls of the same words and reply, the fallback
\* having classified a word the dictionary does not have, and a call of
\* another method among the calls
C14_Witness ==
    \E i, j, k \in 1..Len(tagger.calls) :
        /\ i < j
        /\ tagger.calls[i].op = "get_word_level_map"
        /\ tagger.calls[j].op = "get_word_level_map"
        /\ tagger.calls[k].op = "categorize_words"
        /\ ~tagger.calls[i].raised /\ ~tagger.calls[j].raised
        /\ tagger.calls[i].words = tagger.calls[j].words
        /\ tagger.calls[i].reply = tagger.calls[j].reply
        /\ tagger.calls[i].reply.kind = "dict"
        /\ \E w \in DOMAIN tagger.calls[i].reply.d :
               /\ w \notin DOMAIN LoadedDict
               /\ w \in Range(tagger.calls[i].words)

(***************************************************************************)
(* C15: segment_text never returns a token that is empty or that consists  *)
(* of whitespace and punctuation characters only; a text of whitespace and *)
(* punctuation only (the empty text too) yields the empty list.            *)
(***************************************************************************)
OnlySpaceOrPunctuation(s) ==
    \A i \in 1..Len(s) : s[i] \in WhiteSpace \cup PunctChars \cup WordPunct

C15_NoEmptyOrPunctuationToken ==
    seg_last.called =>
        /\ \A i \in 1..Len(seg_last.words) :
               ~OnlySpaceOrPunctuation(seg_last.words[i])
        /\ OnlySpaceOrPunctuation(seg_last.text) => seg_last.words = <<>>

(***************************************************************************)
(* C16: a word of the custom vocabulary that occurs in the text is         *)
(* returned as one token by segment_text(text, custom_words), also when    *)
(* the base lexicon has shorter pieces of it.                              *)
(***************************************************************************)
OccursIn(w, text) ==
    \E i \in 1..(Len(text) - Len(w) + 1) : SubSeq(text, i, i + Len(w) - 1) = w

C16_CustomWordIsOneToken ==
    seg_last.called =>
        \A i \in 1..Len(seg_last.custom) :
            (seg_last.custom[i] # <<>> /\ OccursIn(seg_last.custom[i], seg_last.text))
                => seg_last.custom[i] \in Range(seg_last.words)

(***************************************************************************)
(* C17: when the fallback classifier replies, get_word_level_map returns a *)
(* map with every input token as a key: a dictionary hit has its           *)
(* dictionary level, a miss the fallback classified has the fallback's     *)
(* level, a miss the fallback did not return has 'unknown'.                *)
(***************************************************************************)
C17_LevelMapCoversEveryToken ==
    (tag_out.op = "get_word_level_map" /\ tag_in.reply.kind = "dict") =>
        /\ ~tag_out.raised
        /\ \A w \in Range(tag_in.words) :
               /\ w \in DOMAIN tag_out.map
               /\ tag_out.map[w] =
                      IF w \in DOMAIN word_dict THEN word_dict[w].level
                      ELSE IF w \in DOMAIN tag_in.reply.d THEN tag_in.reply.d[w]
                      ELSE "unknown"

(***************************************************************************)
(* C18: every key of a categorize_words result is one of the fixed tiers,  *)
(* and the union of its groups is the set of the distinct input tokens.    *)
(***************************************************************************)
GroupTiers == {tag_out.groups[i].level : i \in 1..Len(tag_out.groups)}
GroupedWords == UNION {tag_out.groups[i].words : i \in 1..Len(tag_out.groups)}

C18_GroupsAreTheTokens ==
    (tag_out.op = "categorize_words" /\ ~tag_out.raised) =>
        /\ GroupTiers \subseteq Range(cefr_levels)
        /\ GroupedWords = Range(tag_in.words)

(***************************************************************************)
(* C19: in the result of process_article, word_levels is the inversion of  *)
(* the level map the markup used: a word is listed under tier L exactly    *)
(* when the map assigns it L, whatever the fallback replies on each        *)
(* invocation; only tiers with a member are present, in the order A0 .. C2,*)
(* unknown.                                                                *)
(***************************************************************************)
TierIndex(level) == CHOOSE i \in 1..Len(cefr_levels) : cefr_levels[i] = level

\* the call has built the level map and word_levels for its result
GroupsBuilt(call) ==
    \/ call.pc \in {"simplify", "wrap", "done"}
    \/ call.pc = "raised" /\ call.raised_at \in {"simplify", "wrap"}

C19_WordLevelsInvertTheLevelMap ==
    \A p \in Pipelines :
        GroupsBuilt(pipe[p]) =>
            LET groups == pipe[p].word_levels
                map    == pipe[p].word_level_map
            IN  /\ \A i \in 1..Len(groups) :
                       /\ groups[i].level \in Range(cefr_levels)
                       /\ groups[i].words # {}
                       /\ \A w \in groups[i].words :
                              w \in DOMAIN map /\ map[w] = groups[i].level
                /\ \A i, j \in 1..Len(groups) :
                       i < j => TierIndex(groups[i].level) < TierIndex(groups[j].level)
                /\ \A w \in DOMAIN map :
                       \E i \in 1..Len(groups) :
                           groups[i].level = map[w] /\ w \in groups[i].words

(***************************************************************************)
(* C20: during one process_article run the fallback classifier is invoked  *)
(* at most once, with all the unknown words in one batch, and not at all   *)
(* when no token is unknown; entity extraction is invoked exactly once.    *)
(***************************************************************************)
C20_FallbackInvokedAtMostOnce ==
    \A p \in Pipelines :
        /\ Len(pipe[p].classified) <= 1
        /\ GroupsBuilt(pipe[p]) =>
               LET words   == pipe[p].segmented_versions[1].value
                   unknown == Range(words) \ DOMAIN word_dict
               IN  /\ pipe[p].extracted = 1
                   /\ pipe[p].classified =
                          IF unknown = {} THEN <<>> ELSE <<unknown>>

(***************************************************************************)
(* C21: extract_entities returns a table with exactly the four keys, and   *)
(* the table maps word to gloss under category c if and only if some raw   *)
(* entry has that non-empty word, that non-empty gloss and a type the      *)
(* static table maps to c; other entries are skipped without an error.     *)
(***************************************************************************)
\* the static table of categories by type
StaticTable ==
    {<<"person", "names">>, <<"place", "places">>,
     <<"organization", "organizations">>, <<"other", "misc">>}

\* the raw entries that are complete and of a type mapped to category c
ValidFor(c, word) ==
    {i \in 1..Len(ent.raw) :
        /\ ent.raw[i].word = word /\ word # <<>>
        /\ ent.raw[i].english # <<>>
        /\ <<ent.raw[i].type, c>> \in StaticTable}

TableMaps(c, word, gloss) ==
    od_has(ent.entities[c], word) /\ od_get(ent.entities[c], word) = gloss

C21_TableHoldsEveryValidEntry ==
    ent.pc \in {"extracted", "flat"} =>
        /\ ~ent.raised
        /\ DOMAIN ent.entities = Range(EntityCategories)
        /\ \A c \in Range(EntityCategories), word \in EntityWords \cup {<<>>},
              gloss \in EntityGlosses \cup {<<>>} :
               TableMaps(c, word, gloss)
                   <=> \E i \in ValidFor(c, word) : ent.raw[i].english = gloss

(***************************************************************************)
(* C21, as amended: the table has exactly the four keys, and it maps word  *)
(* to gloss under category c if and only if the last raw entry that has    *)
(* that non-empty word, a non-empty gloss and a type the static table maps *)
(* to c has that gloss; other entries are skipped without an error.        *)
(***************************************************************************)
C21_TableHoldsTheLastValidEntry ==
    ent.pc \in {"extracted", "flat"} =>
        /\ ~ent.raised
        /\ DOMAIN ent.entities = Range(EntityCategories)
        /\ \A c \in Range(EntityCategories), word \in EntityWords \cup {<<>>},
              gloss \in EntityGlosses \cup {<<>>} :
               TableMaps(c, word, gloss)
                   <=> \E i \in ValidFor(c, word) :
                           /\ ent.raw[i].english = gloss
                           /\ \A j \in ValidFor(c, word) : j <= i

\* a word given two glosses for one category: the table has the later one
C21_Witness ==
    /\ ent.pc = "extracted"
    /\ \E c \in Range(EntityCategories), i, j \in 1..Len(ent.raw) :
           /\ i < j /\ i \in ValidFor(c, ent.raw[i].word)
           /\ j \in ValidFor(c, ent.raw[i].word)
           /\ ent.raw[i].english # ent.raw[j].english
           /\ TableMaps(c, ent.raw[j].word, ent.raw[j].english)

(***************************************************************************)
(* C22: get_all_entities returns every entity word of every category, and  *)
(* each distinct word exactly once, also when the same word is stored      *)
(* under more than one category.                                           *)
(***************************************************************************)
C22_EveryEntityWordOnce ==
    ent.pc = "flat" =>
        /\ Range(ent.all) =
               UNION {Range(od_keys(ent.entities[c])) : c \in Range(EntityCategories)}
        /\ \A i, j \in 1..Len(ent.all) : ent.all[i] = ent.all[j] => i = j

(***************************************************************************)
(* C23: in the string wrap_word returns, the characters <, >, & and " of   *)
(* the token, the gloss and the pinyin occur only in escaped form: the     *)
(* element body and the values of data-definition and data-pinyin hold no  *)
(* raw one; the raw ones are the markup's own syntax.                      *)
(***************************************************************************)
RawSpecial == {"<", ">", "&", "\""}

\* the pieces an optional attribute takes: its opening, its value, its quote
AttrLen(option) == IF option.some /\ option.val # <<>> THEN Len(option.val) + 2 ELSE 0

\* the attribute opened by name stands at from + 1, its value of len - 2
\* pieces has no raw special character, its closing quote follows
AttrIsEscaped(html, from, len, name) ==
    len > 0 =>
        /\ html[from + 1] = name
        /\ \A i \in (from + 2)..(from + len - 1) : html[i] \notin RawSpecial
        /\ html[from + len] = "\""

C23_SpecialCharactersAreEscaped ==
    wrap.op = "wrap_word" =>
        LET html == wrap.html
            d    == AttrLen(wrap.definition)
            p    == AttrLen(wrap.pinyin)
            e    == IF wrap.is_entity THEN 1 ELSE 0
            open == 4 + d + p + e + 1
        IN  /\ Len(html) = open + Len(wrap.word) + 1
            /\ html[1] = "<span" /\ html[2] = " class=\"word-" /\ html[4] = "\""
            /\ AttrIsEscaped(html, 4, d, " data-definition=\"")
            /\ AttrIsEscaped(html, 4 + d, p, " data-pinyin=\"")
            /\ html[open] = ">"
            /\ \A i \in (open + 1)..(Len(html) - 1) : html[i] \notin RawSpecial
            /\ html[Len(html)] = "</span>"

\* a word with < and a gloss with " wrapped
C23_Witness ==
    /\ wrap.op = "wrap_word"
    /\ "<" \in Range(wrap.word)
    /\ wrap.definition.some /\ "\"" \in Range(wrap.definition.val)
    /\ wrap.pinyin.some /\ "&" \in Range(wrap.pinyin.val)
    /\ "&lt;" \in Range(wrap.html) /\ "&quot;" \in Range(wrap.html)

(***************************************************************************)
(* C24: annotating a token list (process_content, reached through          *)
(* HTMLWrapper.process_article) emits exactly one markup unit per token,   *)
(* in token order, with nothing between the units; each unit has the level *)
(* the map gives the token ('unknown' when it gives none), and the gloss   *)
(* and the entity flag exactly when the token is an entity of some         *)
(* category; the empty list yields the empty string.                       *)
(***************************************************************************)
\* the markup cut after each closing tag; what follows the last one is a
\* unit of its own
RECURSIVE SplitUnits(_, _)
SplitUnits(html, unit) ==
    IF html = <<>> THEN (IF unit = <<>> THEN <<>> ELSE <<unit>>)
    ELSE IF Head(html) = "</span>"
         THEN <<Append(unit, Head(html))>> \o SplitUnits(Tail(html), <<>>)
         ELSE SplitUnits(Tail(html), Append(unit, Head(html)))

CategoriesOf(word) ==
    {c \in Range(EntityCategories) : od_has(wrap.entity_definitions[c], word)}

\* the markup of the token list, the one returned under 'native'
NativeMarkup == od_get(wrap.html_versions, "native")

C24_OneUnitPerToken ==
    wrap.op = "process_article" =>
        LET units == SplitUnits(NativeMarkup, <<>>)
            level(word) == IF word \in DOMAIN wrap.word_levels
                           THEN wrap.word_levels[word] ELSE "unknown"
            pinyin(word) == IF word \in DOMAIN wrap.pinyin_dict
                            THEN Some(wrap.pinyin_dict[word]) ELSE NoText
        IN  /\ Len(units) = Len(wrap.words)
            /\ \A i \in 1..Len(units) :
                   LET word == wrap.words[i]
                   IN  IF CategoriesOf(word) = {}
                       THEN units[i] = wrap_word(word, level(word), NoText,
                                                 pinyin(word), FALSE)
                       ELSE \E c \in CategoriesOf(word) :
                                units[i] = wrap_word(
                                    word, level(word),
                                    Some(od_get(wrap.entity_definitions[c], word)),
                                    pinyin(word), TRUE)
            /\ (wrap.words = <<>> => NativeMarkup = <<>>)

\* an entity, a token the map has no level for and a token that is neither
C24_Witness ==
    /\ wrap.op = "process_article"
    /\ Len(wrap.words) = 2 /\ wrap.words[1] # wrap.words[2]
    /\ \E i, j \in 1..2 :
           /\ CategoriesOf(wrap.words[i]) # {} /\ CategoriesOf(wrap.words[j]) = {}
           /\ wrap.words[j] \notin DOMAIN wrap.word_levels
    /\ Len(SplitUnits(NativeMarkup, <<>>)) = 2

(***************************************************************************)
(* C25: the markup of each content variant is built from that variant's    *)
(* own data: when HTMLWrapper.process_article is handed the tokens of the  *)
(* original text, the 'native' units are those tokens, and the units of    *)
(* each graded tier are the tokens segmented out of that tier's own text,  *)
(* a dictionary word among them at its dictionary level.                   *)
(***************************************************************************)
\* the escaped word a unit holds between its opening tag and its closing tag
UnitBody(unit) ==
    LET open == CHOOSE k \in 1..Len(unit) :
                    unit[k] = ">" /\ \A m \in 1..(k - 1) : unit[m] # ">"
    IN  SubSeq(unit, open + 1, Len(unit) - 1)

\* the tokens segment_text cuts a text into
TokensOf(text) == segment_text(jieba_dt, hmm, text, <<>>).words

\* the markup is the units of the tokens, dictionary words at their level
MarkupIsOf(html, tokens) ==
    LET units == SplitUnits(html, <<>>)
    IN  /\ Len(units) = Len(tokens)
        /\ \A j \in 1..Len(tokens) :
               /\ UnitBody(units[j]) = html_escape(tokens[j])
               /\ tokens[j] \in DOMAIN LoadedDict =>
                      units[j][3] = lower(LoadedDict[tokens[j]].level)

C25_MarkupOfEachVariantUsesItsOwnLevels ==
    (/\ wrap.op = "process_article"
     /\ wrap.words = TokensOf(wrap.article.mandarin_content)) =>
        /\ MarkupIsOf(NativeMarkup, TokensOf(wrap.article.mandarin_content))
        /\ \A i \in 1..Len(wrap.article.graded_content) :
               LET tier == wrap.article.graded_content[i]
               IN  /\ od_has(wrap.html_versions, tier.key)
                   /\ MarkupIsOf(od_get(wrap.html_versions, tier.key),
                                 TokensOf(tier.value))

(***************************************************************************)
(* C26: after process_article(article, simplify=True) on an article that   *)
(* had no graded content, every external call having replied, the call     *)
(* has returned html_versions with an entry for 'native' and for every     *)
(* tier the simplification step stored on the article in this run.         *)
(***************************************************************************)
\* the call is over and no step before the markup step raised
MarkupStepTaken(call) ==
    call.pc = "done" \/ (call.pc = "raised" /\ call.raised_at = "wrap")

C26_EveryStoredTierHasMarkup ==
    \A p \in Pipelines :
        (MarkupStepTaken(pipe[p]) /\ pipe[p].given.graded_content = <<>>) =>
            /\ pipe[p].pc = "done"
            /\ od_has(pipe[p].html_versions, "native")
            /\ \A i \in 1..Len(pipe[p].article.graded_content) :
                   od_has(pipe[p].html_versions, pipe[p].article.graded_content[i].key)

(***************************************************************************)
(* C27: when the simplification service raises, simplify_article does not  *)
(* raise and leaves graded_content as it was; when the service returns     *)
(* some of the requested tiers, exactly those tiers are stored, and the    *)
(* 'original' entry of the response is never stored as a tier.             *)
(***************************************************************************)
C27_SimplifierFailureIsAbsorbed ==
    (art.op = "simplify_article" /\ ~IsSectioned) =>
        LET reply    == art.reply[1]
            received == simplify_to_multiple_levels(art.before.mandarin_content, reply)
        IN  /\ ~art.raised
            /\ reply.multi.kind = "raise" =>
                   art.article.graded_content = art.before.graded_content
            /\ reply.multi.kind # "raise" =>
                   /\ \A i \in 1..Len(level_mapping) :
                          IF level_mapping[i].value \in DOMAIN received
                          THEN /\ od_has(art.article.graded_content, level_mapping[i].key)
                               /\ od_get(art.article.graded_content, level_mapping[i].key)
                                      = received[level_mapping[i].value]
                          ELSE ~TierChanged(level_mapping[i].key)
                               \/ ~od_has(art.article.graded_content, level_mapping[i].key)
                   /\ Range(od_keys(art.article.graded_content))
                          \subseteq Range(od_keys(art.before.graded_content))
                                    \cup GradedLevels

(***************************************************************************)
(* C28: the spans get_sentence_boundaries returns partition the text:      *)
(* every span is non-empty, the first starts at 0, each starts where the   *)
(* previous one ends, the last ends at len(text); every span but possibly  *)
(* the last ends just after a sentence terminator and its trailing         *)
(* whitespace; the empty text yields the empty list.                       *)
(***************************************************************************)
\* the span ends with a terminator and all the whitespace that follows it
EndsAfterTerminator(text, span) ==
    /\ \E k \in (span[1] + 1)..span[2] :
           /\ text[k] \in Terminators
           /\ \A j \in (k + 1)..span[2] : text[j] \in WhiteSpace
    /\ span[2] < Len(text) => text[span[2] + 1] \notin WhiteSpace

C28_BoundariesPartitionTheText ==
    sent.pc = "done" =>
        LET text == sent.text
            b    == sent.boundaries
        IN  /\ text = <<>> => b = <<>>
            /\ text # <<>> =>
                   /\ b # <<>>
                   /\ b[1][1] = 0
                   /\ b[Len(b)][2] = Len(text)
            /\ \A i \in 1..Len(b) :
                   /\ b[i][1] < b[i][2]
                   /\ i > 1 => b[i][1] = b[i - 1][2]
                   /\ i < Len(b) => EndsAfterTerminator(text, b[i])

\* a sentence with whitespace after its terminator, then text with no
\* terminator
C28_Witness ==
    /\ sent.pc = "done"
    /\ sent.text = <<"a", ".", " ", "a">>
    /\ sent.boundaries = <<<<0, 3>>, <<3, 4>>>>

(***************************************************************************)
(* C29: whatever the fallback classifier returns, words it was not asked   *)
(* about and levels outside the tiers included, the map get_word_level_map *)
(* returns has exactly the distinct input tokens as keys and only tiers as *)
(* values, and categorize_words returns normally on the same response.     *)
(***************************************************************************)
C29_FallbackResponseIsContained ==
    tag_in.reply.kind = "dict" =>
        /\ tag_out.op = "get_word_level_map" =>
               /\ ~tag_out.raised
               /\ DOMAIN tag_out.map = Range(tag_in.words)
               /\ \A w \in DOMAIN tag_out.map : tag_out.map[w] \in Range(cefr_levels)
        /\ tag_out.op = "categorize_words" => ~tag_out.raised

(***************************************************************************)
(* C30: the level in the class attribute of a markup unit cannot break out *)
(* of the attribute: for every level of a map get_word_level_map returns   *)
(* that reaches wrap_word through HTMLWrapper.process_article, the class   *)
(* value is 'word-' followed by a lower-cased tier name and has no raw ",  *)
(* <, > or & character.                                                    *)
(***************************************************************************)
C30_ClassValueIsATierName ==
    wrap.op = "process_article" =>
        \A i \in 1..Len(wrap.html_versions) :
            LET units == SplitUnits(wrap.html_versions[i].value, <<>>)
            IN  \A j \in 1..Len(units) :
                    /\ units[j][2] = " class=\"word-"
                    /\ units[j][3] \in {lower(level) : level \in Range(cefr_levels)}
                    /\ units[j][3] \notin RawSpecial
                    /\ units[j][4] = "\""

====
